---- MODULE Spec2Model ----
(***************************************************************************)
(* LuidFiles backend canister (src/backend/main.mo): users, sessions,      *)
(* chunked upload, download, deletion and share links.  Every public       *)
(* method of the actor is one action.  A method that traps rolls back, so  *)
(* a trapping call changes nothing but the recorded reply `ret`.           *)
(* The variable hook is one run of the browser's useChunkedUpload hook     *)
(* (src/frontend/src/hooks/useChunkedUpload.ts).  The variable tab is what *)
(* one browser tab keeps between pages: the session token of localStorage, *)
(* the chunk cache and the sessionStorage metadata cache of                *)
(* src/frontend/src/utils/chunkCache.ts, and the React Query data of the   *)
(* file list.                                                              *)
(***************************************************************************)
EXTENDS Integers, Sequences, FiniteSets, TLC

VARIABLES users, usersByName, files, chunks, sessions, shareTokens,
          userIdCounter, fileIdCounter, now, ret, calls, hook, tab

state == <<users, usersByName, files, chunks, sessions, shareTokens,
           userIdCounter, fileIdCounter>>
vars == <<users, usersByName, files, chunks, sessions, shareTokens,
          userIdCounter, fileIdCounter, now, ret, calls, hook, tab>>

(***************************************************************************)
(* Bounds of the model.                                                    *)
(***************************************************************************)
\* number of committed update calls and clock ticks in a behaviour of Spec (the
\* variable calls holds how many are left); queries and trapping calls are not
\* counted
MaxCalls == 5
\* highest user id handed out (the seeded Master account is id 1)
MaxUsers == 3
\* highest file id handed out
MaxFiles == 2
\* chunk indices sent to uploadChunk range over 0..MaxChunks; no upload of
\* Uploads declares more than MaxChunks chunks, so index MaxChunks is out of range
MaxChunks == 2
\* largest value of Time.now()
MaxTime == 1
\* largest number of live sessions
MaxSessions == 2
\* largest gbLimit passed to updateUserGbLimit
MaxGbLimit == 1
\* finalizeUpload is explored while the owner's usedBytes stays within this
MaxUsedBytes == 12
\* number of committed update calls in a behaviour of SpecLife
MaxLifeCalls == 7
\* highest chunk index sent to uploadChunk in SpecLife
MaxLifeIndex == 2
\* number of committed update calls and clock ticks in a behaviour of SpecAuth
MaxAuthCalls == 4
\* number of committed update calls in a behaviour of SpecAdmin
MaxAdminCalls == 6
\* number of committed update calls in a behaviour of SpecList
MaxListCalls == 6
\* largest file.size handed to the hook, in MiB
MaxFileSize == 8
\* highest chunk index the record of the hook's uploadChunk calls has room for
MaxIndex == 6
\* bytes per GB in the model's unit of storage (the source's 1_000_000_000,
\* scaled down: one model byte stands for 500 MB)
BytesPerGb == 2

(***************************************************************************)
(* Program constants.                                                      *)
(***************************************************************************)
\* gbAllocation of a new Client account; the default quota is 5 GB
DefaultGb == 5
\* useChunkedUpload: bytes per chunk, in MiB
CHUNK_SIZE == 2
\* useChunkedUpload: chunks in flight at once
CONCURRENT_CHUNKS == 3
DefaultQuota == DefaultGb * BytesPerGb

MasterName == "SidneiCosta00"
MasterPassword == "Nikebolado@4"

Names == {MasterName, "ab"}
\* passwords tried at login; new accounts are created with NewPasswords
Passwords == {MasterPassword, "c"}
NewPasswords == {"c"}
Roles == {"Master", "Staff", "Client"}
\* the uploads clients start: filename, mimeType, totalSize (model bytes), totalChunks
Uploads == {<<"a.txt", "text/plain", 6, 1>>,
            <<"b.png", "image/png", 4, 2>>,
            <<"c.bin", "application/octet-stream", 2, 0>>}
\* chunk contents: byte sequences
Blobs == {<<1>>, <<2, 3>>}
BogusToken == "bogus"

\* ?T values: null is <<>>, ?t is <<t>>
Null == <<>>
Some(t) == <<t>>

UserIds == 1..MaxUsers
FileIds == 1..MaxFiles

(***************************************************************************)
(* Helpers                                                                 *)
(***************************************************************************)
Digits == <<"0", "1", "2", "3", "4", "5", "6", "7", "8", "9">>

\* Nat.toText / Int.toText of a non-negative number: decimal digits
RECURSIVE toText(_)
toText(n) == IF n < 10 THEN Digits[n + 1]
             ELSE toText(n \div 10) \o Digits[(n % 10) + 1]

hashPassword(password) == password

createToken(seed) == seed \o toText(now) \o toText(now)

\* a key that leaves the index out
chunkKeyOfFile(fileId, index) == toText(fileId)

chunkKey(fileId, index) == toText(fileId) \o "_" \o toText(index)

\* requireSession: "" when the token resolves to a user, else the trap message
requireSessionErr(token) ==
    IF token \notin DOMAIN sessions
    THEN "Unauthorized: Invalid or expired session token"
    ELSE IF sessions[token].userId \notin DOMAIN users
         THEN "Unauthorized: User not found for session"
         ELSE ""

requireSession(token) == users[sessions[token].userId]

requireMasterErr(token) ==
    IF requireSessionErr(token) /= "" THEN requireSessionErr(token)
    ELSE IF requireSession(token).role /= "Master"
         THEN "Unauthorized: Only Master role can perform this action"
         ELSE ""

\* a role test that lets every session through
requireAnyRoleErr(token) == requireSessionErr(token)

requireMasterOrStaffErr(token) ==
    IF requireSessionErr(token) /= "" THEN requireSessionErr(token)
    ELSE IF requireSession(token).role /= "Master" /\ requireSession(token).role /= "Staff"
         THEN "Unauthorized: Only Master or Staff roles can perform this action"
         ELSE ""

\* Map.add: insert or replace
Put(m, k, v) == [x \in DOMAIN m \cup {k} |-> IF x = k THEN v ELSE m[x]]
\* Map.remove: no effect on an absent key
Remove(m, k) == [x \in DOMAIN m \ {k} |-> m[x]]

EmptyMap == [x \in {} |-> x]

\* the call repeats the call before it: same method, same arguments
Again(op, args) == ret.op = op /\ ret.err = "" /\ ret.args = args

\* files.get(fileId) as the handler of a call with a fileId argument sees it
Found(args) ==
    IF "fileId" \in DOMAIN args /\ args.fileId \in DOMAIN files
    THEN Some(files[args.fileId]) ELSE Null

\* a failing initUpload that keeps the file id it took
TrapKeepsId(op, args, msg) ==
    /\ ret' = [op |-> op, args |-> args, err |-> msg, val |-> Null,
               again |-> Again(op, args), f |-> Found(args)]
    /\ fileIdCounter' = IF op = "initUpload" THEN fileIdCounter + 1 ELSE fileIdCounter
    /\ UNCHANGED <<users, usersByName, files, chunks, sessions, shareTokens,
                   userIdCounter, now, calls, hook, tab>>

\* a call that traps: the canister state is rolled back, the caller sees the message
Trap(op, args, msg) ==
    /\ ret' = [op |-> op, args |-> args, err |-> msg, val |-> Null,
               again |-> Again(op, args), f |-> Found(args)]
    /\ UNCHANGED <<state, now, calls, hook, tab>>

\* the reply of a call that returns
Reply(op, args, val) ==
    /\ ret' = [op |-> op, args |-> args, err |-> "", val |-> val,
               again |-> Again(op, args), f |-> Found(args)]
    /\ UNCHANGED <<hook, tab>>

\* an update call that commits
Commit(op, args, val) ==
    /\ calls > 0
    /\ calls' = calls - 1
    /\ Reply(op, args, val)

\* a tab that has loaded the application: no session token in localStorage,
\* chunkMap = new Map(), nothing in sessionStorage, no query data
TabEmpty ==
    [session |-> Null, chunkMap |-> EmptyMap, metadata |-> Null, query |-> Null,
     served |-> Null, error |-> FALSE]

\* the hook before upload is called: no run, cancelledRef = useRef(false),
\* progress = null (status "idle").  cancelled records that cancel() was
\* called during the run, onComplete counts the calls of onComplete.
HookIdle ==
    [pc |-> "idle", size |-> 0, totalChunks |-> 0, batchStart |-> 0,
     cancelledRef |-> FALSE, chunksUploaded |-> 0, inFlight |-> {},
     initCalls |-> 0, sent |-> [i \in 0..MaxIndex |-> 0], ok |-> {},
     finalizeCalls |-> 0, status |-> "idle", cancelled |-> FALSE,
     onComplete |-> 0]

(***************************************************************************)
(* Initial state: the seeded Master account                                *)
(***************************************************************************)
InitWith(budget) ==
    /\ users = [u \in {1} |-> [id |-> 1, username |-> MasterName,
                               passwordHash |-> hashPassword(MasterPassword),
                               role |-> "Master", gbAllocation |-> 0,
                               quota |-> DefaultQuota, usedBytes |-> 0]]
    /\ usersByName = [n \in {MasterName} |-> 1]
    /\ files = EmptyMap
    /\ chunks = EmptyMap
    /\ sessions = EmptyMap
    /\ shareTokens = EmptyMap
    /\ userIdCounter = 1
    /\ fileIdCounter = 0
    /\ now = 0
    /\ ret = [op |-> "init", args |-> Null, err |-> "", val |-> Null,
              again |-> FALSE, f |-> Null]
    /\ calls = budget
    /\ hook = HookIdle
    /\ tab = TabEmpty

Init == InitWith(MaxCalls)

\* the system time advances between calls
Tick ==
    /\ now < MaxTime
    /\ calls > 0
    /\ now' = now + 1
    /\ calls' = calls - 1
    /\ ret' = [op |-> "tick", args |-> Null, err |-> "", val |-> Null,
               again |-> FALSE, f |-> Null]
    /\ UNCHANGED <<state, hook, tab>>

(***************************************************************************)
(* Authentication                                                          *)
(***************************************************************************)
login(username, password) ==
    LET args == [username |-> username, password |-> password] IN
    IF username \notin DOMAIN usersByName
    THEN Trap("login", args, "Invalid username or password")
    ELSE IF usersByName[username] \notin DOMAIN users
    THEN Trap("login", args, "Invalid username or password")
    ELSE LET user == users[usersByName[username]] IN
         IF user.passwordHash /= hashPassword(password)
         THEN Trap("login", args, "Invalid username or password")
         ELSE LET token == createToken(username \o password \o toText(now))
                  session == [userId |-> user.id, token |-> token,
                              created |-> now, lastActive |-> now]
              IN /\ Cardinality(DOMAIN sessions \cup {token}) <= MaxSessions
                 /\ sessions' = Put(sessions, token, session)
                 /\ Commit("login", args, token)
                 /\ UNCHANGED <<users, usersByName, files, chunks, shareTokens,
                                userIdCounter, fileIdCounter, now>>

logout(token) ==
    /\ sessions' = Remove(sessions, token)
    /\ Commit("logout", [token |-> token], Null)
    /\ UNCHANGED <<users, usersByName, files, chunks, shareTokens,
                   userIdCounter, fileIdCounter, now>>

\* a name test that finds no username in use
takenNever(byName, username) == FALSE

\* switch (usersByName.get(username)) { case (?_) ... }
taken(byName, username) == username \in DOMAIN byName

registerUser(username, password) ==
    LET args == [username |-> username, password |-> password] IN
    IF taken(usersByName, username)
    THEN Trap("registerUser", args, "Username already taken")
    ELSE LET uid == userIdCounter + 1
             newUser == [id |-> uid, username |-> username,
                         passwordHash |-> hashPassword(password),
                         role |-> "Client", gbAllocation |-> DefaultGb,
                         quota |-> DefaultQuota, usedBytes |-> 0]
         IN /\ uid <= MaxUsers
            /\ userIdCounter' = uid
            /\ users' = Put(users, uid, newUser)
            /\ usersByName' = Put(usersByName, username, uid)
            /\ Commit("registerUser", args, uid)
            /\ UNCHANGED <<files, chunks, sessions, shareTokens, fileIdCounter, now>>

(***************************************************************************)
(* User management                                                         *)
(***************************************************************************)
createUser(token, username, password, role) ==
    LET args == [token |-> token, username |-> username,
                 password |-> password, role |-> role] IN
    IF requireMasterOrStaffErr(token) /= ""
    THEN Trap("createUser", args, requireMasterOrStaffErr(token))
    ELSE IF requireSession(token).role = "Staff" /\ role /= "Client"
    THEN Trap("createUser", args, "Unauthorized: Staff can only create Client accounts")
    ELSE IF taken(usersByName, username)
    THEN Trap("createUser", args, "Username already taken")
    ELSE LET uid == userIdCounter + 1
             defaultQuota == IF role = "Client" THEN DefaultQuota ELSE DefaultQuota
             defaultGbAllocation == IF role = "Client" THEN DefaultGb ELSE 0
             newUser == [id |-> uid, username |-> username,
                         passwordHash |-> hashPassword(password),
                         role |-> role, gbAllocation |-> defaultGbAllocation,
                         quota |-> defaultQuota, usedBytes |-> 0]
         IN /\ uid <= MaxUsers
            /\ userIdCounter' = uid
            /\ users' = Put(users, uid, newUser)
            /\ usersByName' = Put(usersByName, username, uid)
            /\ Commit("createUser", args, uid)
            /\ UNCHANGED <<files, chunks, sessions, shareTokens, fileIdCounter, now>>

\* a test that protects only the seeded account
isMasterSeeded(u) == u.username = MasterName

\* the test u.role == #Master of deleteUser and updateUserRole
isMaster(u) == u.role = "Master"

deleteUser(token, userId) ==
    LET args == [token |-> token, userId |-> userId] IN
    IF requireMasterOrStaffErr(token) /= ""
    THEN Trap("deleteUser", args, requireMasterOrStaffErr(token))
    ELSE IF userId \notin DOMAIN users
    THEN Trap("deleteUser", args, "User not found")
    ELSE LET u == users[userId] IN
         IF requireSession(token).role = "Staff" /\ u.role /= "Client"
         THEN Trap("deleteUser", args, "Unauthorized: Staff can only delete Client accounts")
         ELSE IF isMaster(u)
         THEN Trap("deleteUser", args, "Unauthorized: Cannot delete Master account")
         ELSE /\ usersByName' = Remove(usersByName, u.username)
              /\ users' = Remove(users, userId)
              /\ Commit("deleteUser", args, Null)
              /\ UNCHANGED <<files, chunks, sessions, shareTokens,
                             userIdCounter, fileIdCounter, now>>

updateUserRole(token, userId, role) ==
    LET args == [token |-> token, userId |-> userId, role |-> role] IN
    IF requireMasterErr(token) /= ""
    THEN Trap("updateUserRole", args, requireMasterErr(token))
    ELSE IF userId \notin DOMAIN users
    THEN Trap("updateUserRole", args, "User not found")
    ELSE LET u == users[userId] IN
         IF isMaster(u)
         THEN Trap("updateUserRole", args,
                   "Unauthorized: Cannot change the role of the Master account")
         ELSE /\ users' = Put(users, userId, [u EXCEPT !.role = role])
              /\ Commit("updateUserRole", args, Null)
              /\ UNCHANGED <<usersByName, files, chunks, sessions, shareTokens,
                             userIdCounter, fileIdCounter, now>>

updateUserGbLimit(token, userId, gbLimit) ==
    LET args == [token |-> token, userId |-> userId, gbLimit |-> gbLimit] IN
    IF requireMasterOrStaffErr(token) /= ""
    THEN Trap("updateUserGbLimit", args, requireMasterOrStaffErr(token))
    ELSE IF userId \notin DOMAIN users
    THEN Trap("updateUserGbLimit", args, "User not found")
    ELSE LET u == users[userId] IN
         IF u.role /= "Client"
         THEN Trap("updateUserGbLimit", args, "Can only set GB limit for Client accounts")
         ELSE /\ users' = Put(users, userId,
                              [u EXCEPT !.gbAllocation = gbLimit,
                                        !.quota = gbLimit * BytesPerGb])
              /\ Commit("updateUserGbLimit", args, Null)
              /\ UNCHANGED <<usersByName, files, chunks, sessions, shareTokens,
                             userIdCounter, fileIdCounter, now>>

toPublicProfile(u) ==
    [id |-> u.id, username |-> u.username, role |-> u.role, quota |-> u.quota,
     usedBytes |-> u.usedBytes, gbAllocation |-> u.gbAllocation]

\* query: the profiles of users.values(), by user id
listUsers(token) ==
    LET args == [token |-> token] IN
    IF requireMasterOrStaffErr(token) /= ""
    THEN Trap("listUsers", args, requireMasterOrStaffErr(token))
    ELSE /\ Reply("listUsers", args,
                  [i \in DOMAIN users |-> toPublicProfile(users[i])])
         /\ UNCHANGED <<state, now, calls>>

\* query
getUserStorageStats(token, userId) ==
    LET args == [token |-> token, userId |-> userId] IN
    IF requireMasterOrStaffErr(token) /= ""
    THEN Trap("getUserStorageStats", args, requireMasterOrStaffErr(token))
    ELSE IF userId \notin DOMAIN users
    THEN Trap("getUserStorageStats", args, "User not found")
    ELSE LET u == users[userId] IN
         /\ Reply("getUserStorageStats", args,
                  [quota |-> u.quota, usedBytes |-> u.usedBytes,
                   gbAllocation |-> u.gbAllocation])
         /\ UNCHANGED <<state, now, calls>>

(***************************************************************************)
(* Chunked upload                                                          *)
(***************************************************************************)
\* a quota test that also refuses an upload filling the quota exactly
quotaExceededAtLimit(user, totalSize) == user.usedBytes + totalSize >= user.quota

\* the quota test of initUpload
quotaExceeded(user, totalSize) == user.usedBytes + totalSize > user.quota

\* an ownership test that lets only the owner and Master through
notPermittedStaff(f, user) == f.owner /= user.id /\ user.role /= "Master"

\* the ownership test of uploadChunk, finalizeUpload, deleteFile, generateShareLink
notPermitted(f, user) ==
    f.owner /= user.id /\ user.role /= "Master" /\ user.role /= "Staff"

\* a counting loop that stops at the first index without a chunk
RECURSIVE countFromPrefix(_, _, _, _)
countFromPrefix(cs, fileId, i, totalChunks) ==
    IF i >= totalChunks \/ chunkKey(fileId, i) \notin DOMAIN cs THEN 0
    ELSE 1 + countFromPrefix(cs, fileId, i + 1, totalChunks)

\* a counting loop that also looks at index totalChunks
RECURSIVE countFromInclusive(_, _, _, _)
countFromInclusive(cs, fileId, i, totalChunks) ==
    IF i > totalChunks THEN 0
    ELSE (IF chunkKey(fileId, i) \in DOMAIN cs THEN 1 ELSE 0)
         + countFromInclusive(cs, fileId, i + 1, totalChunks)

\* the counting loop of uploadChunk over Nat.range(0, totalChunks)
RECURSIVE countFrom(_, _, _, _)
countFrom(cs, fileId, i, totalChunks) ==
    IF i >= totalChunks THEN 0
    ELSE (IF chunkKey(fileId, i) \in DOMAIN cs THEN 1 ELSE 0)
         + countFrom(cs, fileId, i + 1, totalChunks)

\* a scan that stops one index short of totalChunks
RECURSIVE firstMissingShort(_, _, _, _)
firstMissingShort(cs, fileId, i, totalChunks) ==
    IF i + 1 >= totalChunks THEN -1
    ELSE IF chunkKey(fileId, i) \notin DOMAIN cs THEN i
    ELSE firstMissingShort(cs, fileId, i + 1, totalChunks)

\* the scanning loop of finalizeUpload and downloadFile: the first index of
\* Nat.range(i, totalChunks) without a chunk, or -1 when every index has one
RECURSIVE firstMissing(_, _, _, _)
firstMissing(cs, fileId, i, totalChunks) ==
    IF i >= totalChunks THEN -1
    ELSE IF chunkKey(fileId, i) \notin DOMAIN cs THEN i
    ELSE firstMissing(cs, fileId, i + 1, totalChunks)

\* a store that appends a re-sent chunk to the blob already at its key
storeChunkAppend(cs, key, chunkData) ==
    IF key \in DOMAIN cs THEN Put(cs, key, cs[key] \o chunkData)
    ELSE Put(cs, key, chunkData)

\* chunks.add of uploadChunk
storeChunk(cs, key, chunkData) == Put(cs, key, chunkData)

\* a credit that is skipped for a file already Complete
creditOnce(owner, f) ==
    [owner EXCEPT !.usedBytes = IF f.status = "Complete" THEN @ ELSE @ + f.totalSize]

\* a status update that re-opens a file already Complete
completeToggled(f) ==
    [f EXCEPT !.status = IF @ = "Complete" THEN "Pending" ELSE "Complete"]

\* the file record finalizeUpload writes back: { f with status = #Complete }
complete(f) == [f EXCEPT !.status = "Complete"]

\* a finalizeUpload that books the file on the user who called it
chargedCaller(f, user) == user.id

\* the user finalizeUpload books file f on: users.get(f.owner), whoever calls
charged(f, user) == f.owner

\* a credit that holds usedBytes at the quota
creditWithinQuota(owner, f) ==
    [owner EXCEPT !.usedBytes = IF @ + f.totalSize > owner.quota THEN @
                                ELSE @ + f.totalSize]

\* the owner record finalizeUpload writes back for file f
credit(owner, f) == [owner EXCEPT !.usedBytes = owner.usedBytes + f.totalSize]

\* a release that leaves the ledger as it was
releaseKept(owner, f) == owner

\* a release that gives back only what finalizeUpload credited
releaseIfComplete(owner, f) ==
    [owner EXCEPT !.usedBytes = IF f.status /= "Complete" THEN @
                                ELSE IF @ >= f.totalSize THEN @ - f.totalSize ELSE 0]

\* the owner record deleteFile writes back for file f
release(owner, f) ==
    LET newUsed == IF owner.usedBytes >= f.totalSize
                   THEN owner.usedBytes - f.totalSize ELSE 0
    IN [owner EXCEPT !.usedBytes = newUsed]

\* an id source that hands out the lowest id above the number of files
nextFileIdByCount(counter) == Cardinality(DOMAIN files) + 1

\* nextFileId: fileIdCounter += 1; fileIdCounter
nextFileId(counter) == counter + 1

initUpload(token, filename, mimeType, totalSize, totalChunks) ==
    LET args == [token |-> token, filename |-> filename, mimeType |-> mimeType,
                 totalSize |-> totalSize, totalChunks |-> totalChunks] IN
    IF requireSessionErr(token) /= ""
    THEN Trap("initUpload", args, requireSessionErr(token))
    ELSE LET user == requireSession(token) IN
         IF quotaExceeded(user, totalSize)
         THEN Trap("initUpload", args, "Storage quota exceeded")
         ELSE LET fid == nextFileId(fileIdCounter)
                  f == [fileId |-> fid, owner |-> user.id, filename |-> filename,
                        mimeType |-> mimeType, totalSize |-> totalSize,
                        totalChunks |-> totalChunks, status |-> "Pending",
                        created |-> now, shareToken |-> Null]
              IN /\ fid <= MaxFiles
                 /\ fileIdCounter' = fid
                 /\ files' = Put(files, fid, f)
                 /\ Commit("initUpload", args, fid)
                 /\ UNCHANGED <<users, usersByName, chunks, sessions, shareTokens,
                                userIdCounter, now>>

uploadChunk(token, fileId, chunkIndex, chunkData) ==
    LET args == [token |-> token, fileId |-> fileId, chunkIndex |-> chunkIndex,
                 chunkData |-> chunkData] IN
    IF requireSessionErr(token) /= ""
    THEN Trap("uploadChunk", args, requireSessionErr(token))
    ELSE IF fileId \notin DOMAIN files
    THEN Trap("uploadChunk", args, "File not found")
    ELSE LET user == requireSession(token)
             f == files[fileId]
         IN IF notPermitted(f, user)
            THEN Trap("uploadChunk", args, "Unauthorized: Not the file owner")
            ELSE /\ chunks' = storeChunk(chunks, chunkKey(fileId, chunkIndex), chunkData)
                 /\ Commit("uploadChunk", args, countFrom(chunks', fileId, 0, f.totalChunks))
                 /\ UNCHANGED <<users, usersByName, files, sessions, shareTokens,
                                userIdCounter, fileIdCounter, now>>

finalizeUpload(token, fileId) ==
    LET args == [token |-> token, fileId |-> fileId] IN
    IF requireSessionErr(token) /= ""
    THEN Trap("finalizeUpload", args, requireSessionErr(token))
    ELSE IF fileId \notin DOMAIN files
    THEN Trap("finalizeUpload", args, "File not found")
    ELSE LET user == requireSession(token)
             f == files[fileId]
             missing == firstMissing(chunks, fileId, 0, f.totalChunks)
         IN IF notPermitted(f, user)
            THEN Trap("finalizeUpload", args, "Unauthorized: Not the file owner")
            ELSE IF missing /= -1
            THEN Trap("finalizeUpload", args, "Missing chunk: " \o toText(missing))
            ELSE /\ files' = Put(files, fileId, complete(f))
                 /\ IF charged(f, user) \notin DOMAIN users
                    THEN users' = users
                    ELSE LET owner == users[charged(f, user)] IN
                         /\ credit(owner, f).usedBytes <= MaxUsedBytes
                         /\ users' = Put(users, charged(f, user), credit(owner, f))
                 /\ Commit("finalizeUpload", args, Null)
                 /\ UNCHANGED <<usersByName, chunks, sessions, shareTokens,
                                userIdCounter, fileIdCounter, now>>

(***************************************************************************)
(* File functions                                                          *)
(***************************************************************************)
\* a filter that keeps every record
listedAll(f, user) == TRUE

\* the records listFiles keeps for the user of the session
listed(f, user) ==
    IF user.role = "Master" \/ user.role = "Staff" THEN TRUE
    ELSE f.owner = user.id

\* query: the records of files.values() that listed keeps, by file id
listFiles(token) ==
    LET args == [token |-> token] IN
    IF requireSessionErr(token) /= ""
    THEN Trap("listFiles", args, requireSessionErr(token))
    ELSE LET user == requireSession(token) IN
         /\ Reply("listFiles", args,
                  [g \in {h \in DOMAIN files : listed(files[h], user)} |-> files[g]])
         /\ UNCHANGED <<state, now, calls>>

\* a share-token test that accepts a token bound to any file
shareGrantsAnyFile(shareToken, fileId) ==
    shareToken /= Null /\ shareToken[1] \in DOMAIN shareTokens

\* the share-token test of downloadFile
shareGrants(shareToken, fileId) ==
    /\ shareToken /= Null
    /\ shareToken[1] \in DOMAIN shareTokens
    /\ shareTokens[shareToken[1]] = fileId

\* a session test that lets only the owner through
mayReadOwnerOnly(f, user) == f.owner = user.id

\* the session test of downloadFile
mayRead(f, user) ==
    f.owner = user.id \/ user.role = "Master" \/ user.role = "Staff"

\* a loop that puts each chunk in front of the parts gathered so far
RECURSIVE partsFromReversed(_, _, _, _)
partsFromReversed(cs, fileId, i, totalChunks) ==
    IF i >= totalChunks THEN <<>>
    ELSE partsFromReversed(cs, fileId, i + 1, totalChunks) \o <<cs[chunkKey(fileId, i)]>>

\* the parts array built by downloadFile's loop over Nat.range(i, totalChunks)
RECURSIVE partsFrom(_, _, _, _)
partsFrom(cs, fileId, i, totalChunks) ==
    IF i >= totalChunks THEN <<>>
    ELSE <<cs[chunkKey(fileId, i)]>> \o partsFrom(cs, fileId, i + 1, totalChunks)

\* Blob.fromArray(parts.map(Blob.toArray).flatten())
RECURSIVE flatten(_)
flatten(parts) ==
    IF parts = <<>> THEN <<>> ELSE Head(parts) \o flatten(Tail(parts))

\* a session lookup that stamps the session it finds with the time of the call
resolvedStamped(ss, token) ==
    [ss EXCEPT ![token] = [@ EXCEPT !.lastActive = now]]

\* the session table after requireSession(token) has found the session: the
\* lookup reads sessions and users and writes nothing
resolved(ss, token) == ss

\* an emptiness test that lets an empty parts array through
isEmptyNever(parts) == FALSE

\* parts.isEmpty() of downloadFile
isEmpty(parts) == parts = <<>>

downloadFile(fileId, token, shareToken) ==
    LET args == [fileId |-> fileId, token |-> token, shareToken |-> shareToken] IN
    IF fileId \notin DOMAIN files
    THEN Trap("downloadFile", args, "File not found")
    ELSE LET f == files[fileId]
             missing == firstMissing(chunks, fileId, 0, f.totalChunks)
             parts == partsFrom(chunks, fileId, 0, f.totalChunks)
         IN IF ~shareGrants(shareToken, fileId) /\ token = Null
            THEN Trap("downloadFile", args, "Unauthorized: Provide a session or share token")
            ELSE IF ~shareGrants(shareToken, fileId) /\ requireSessionErr(token[1]) /= ""
            THEN Trap("downloadFile", args, requireSessionErr(token[1]))
            ELSE IF ~shareGrants(shareToken, fileId) /\ ~mayRead(f, requireSession(token[1]))
            THEN Trap("downloadFile", args, "Unauthorized: Not the file owner")
            ELSE IF missing /= -1
            THEN Trap("downloadFile", args, "Missing chunk: " \o toText(missing))
            ELSE IF isEmpty(parts)
            THEN Trap("downloadFile", args, "No chunks found. Cannot assemble file.")
            ELSE /\ Reply("downloadFile", args,
                          [data |-> flatten(parts), mimeType |-> f.mimeType,
                           filename |-> f.filename])
                 /\ sessions' = IF shareGrants(shareToken, fileId) THEN sessions
                                 ELSE resolved(sessions, token[1])
                 /\ UNCHANGED <<users, usersByName, files, chunks, shareTokens,
                                userIdCounter, fileIdCounter, now, calls>>

\* the chunk-removal loop of deleteFile over Nat.range(i, totalChunks)
RECURSIVE removeChunks(_, _, _, _)
removeChunks(cs, fileId, i, totalChunks) ==
    IF i >= totalChunks THEN cs
    ELSE removeChunks(Remove(cs, chunkKey(fileId, i)), fileId, i + 1, totalChunks)

\* a deleteFile that leaves the share token of the file in the table
unbindNothing(sts, f) == sts

\* switch (f.shareToken) of deleteFile: shareTokens.remove(st)
unbind(sts, f) ==
    IF f.shareToken /= Null THEN Remove(sts, f.shareToken[1]) ELSE sts

deleteFile(token, fileId) ==
    LET args == [token |-> token, fileId |-> fileId] IN
    IF requireSessionErr(token) /= ""
    THEN Trap("deleteFile", args, requireSessionErr(token))
    ELSE IF fileId \notin DOMAIN files
    THEN Trap("deleteFile", args, "File not found")
    ELSE LET user == requireSession(token)
             f == files[fileId]
         IN IF notPermitted(f, user)
            THEN Trap("deleteFile", args, "Unauthorized: Not the file owner")
            ELSE /\ chunks' = removeChunks(chunks, fileId, 0, f.totalChunks)
                 /\ shareTokens' = unbind(shareTokens, f)
                 /\ files' = Remove(files, fileId)
                 /\ users' = IF f.owner \notin DOMAIN users THEN users
                             ELSE LET owner == users[f.owner] IN
                                  Put(users, f.owner, release(owner, f))
                 /\ Commit("deleteFile", args, Null)
                 /\ UNCHANGED <<usersByName, sessions, userIdCounter, fileIdCounter, now>>

\* a lookup that never finds the token a file already has
shareTokenOfNone(f) == Null

\* switch (f.shareToken) of generateShareLink
shareTokenOf(f) == f.shareToken

generateShareLink(token, fileId) ==
    LET args == [token |-> token, fileId |-> fileId] IN
    IF requireSessionErr(token) /= ""
    THEN Trap("generateShareLink", args, requireSessionErr(token))
    ELSE IF fileId \notin DOMAIN files
    THEN Trap("generateShareLink", args, "File not found")
    ELSE LET user == requireSession(token)
             f == files[fileId]
         IN IF notPermitted(f, user)
            THEN Trap("generateShareLink", args, "Unauthorized: Not the file owner")
            ELSE IF shareTokenOf(f) /= Null
            THEN /\ Commit("generateShareLink", args, shareTokenOf(f)[1])
                 /\ UNCHANGED <<state, now>>
            ELSE LET st == createToken("share" \o toText(fileId) \o toText(now)) IN
                 /\ files' = Put(files, fileId, [f EXCEPT !.shareToken = Some(st)])
                 /\ shareTokens' = Put(shareTokens, st, fileId)
                 /\ Commit("generateShareLink", args, st)
                 /\ UNCHANGED <<users, usersByName, chunks, sessions,
                                userIdCounter, fileIdCounter, now>>

(***************************************************************************)
(* Calls made by clients                                                   *)
(***************************************************************************)
\* session tokens a caller may present: the live ones and one that never was
TokenInputs == DOMAIN sessions \cup {BogusToken}
ShareInputs == {Null} \cup {Some(st) : st \in DOMAIN shareTokens \cup {BogusToken}}

\* A query and a call that traps leave the canister as it was: whatever may
\* follow them may follow the last committed call, and is explored from there.
Ready ==
    /\ ret.err = ""
    /\ ret.op \notin {"downloadFile", "listUsers", "getUserStorageStats", "listFiles"}

Next ==
    \/ Ready /\ Tick
    \/ Ready /\ \E n \in Names, p \in Passwords : login(n, p)
    \/ Ready /\ \E t \in TokenInputs : logout(t)
    \/ Ready /\ \E n \in Names, p \in NewPasswords : registerUser(n, p)
    \/ Ready /\ \E t \in TokenInputs, n \in Names, p \in NewPasswords, r \in Roles :
          createUser(t, n, p, r)
    \/ Ready /\ \E t \in TokenInputs, u \in UserIds : deleteUser(t, u)
    \/ Ready /\ \E t \in TokenInputs, u \in UserIds, r \in Roles :
          updateUserRole(t, u, r)
    \/ Ready /\ \E t \in TokenInputs, u \in UserIds, g \in 0..MaxGbLimit :
          updateUserGbLimit(t, u, g)
    \/ Ready /\ \E t \in TokenInputs, u \in Uploads :
          initUpload(t, u[1], u[2], u[3], u[4])
    \/ Ready /\ \E t \in TokenInputs, f \in FileIds, i \in 0..MaxChunks, d \in Blobs :
          uploadChunk(t, f, i, d)
    \/ Ready /\ \E t \in TokenInputs, f \in FileIds : finalizeUpload(t, f)
    \/ Ready /\ \E f \in FileIds, t \in {Null} \cup {Some(x) : x \in TokenInputs},
          st \in ShareInputs : downloadFile(f, t, st)
    \/ Ready /\ \E t \in TokenInputs, f \in FileIds : deleteFile(t, f)
    \/ Ready /\ \E t \in TokenInputs, f \in FileIds : generateShareLink(t, f)

Spec == Init /\ [][Next]_vars

(***************************************************************************)
(* The life of files, from initUpload to deleteFile: longer runs of the    *)
(* upload, download and delete methods at one instant, with an upload of   *)
(* three chunks.                                                           *)
(***************************************************************************)
LifeUploads == {<<"a.txt", "text/plain", 6, 1>>,
                <<"b.png", "image/png", 4, 2>>,
                <<"d.dat", "application/octet-stream", 6, 3>>}

LifeInit == InitWith(MaxLifeCalls)

LifeNext ==
    \/ Ready /\ \E n \in Names, p \in Passwords : login(n, p)
    \/ Ready /\ \E t \in TokenInputs, u \in LifeUploads :
          initUpload(t, u[1], u[2], u[3], u[4])
    \/ Ready /\ \E t \in TokenInputs, f \in FileIds, i \in 0..MaxLifeIndex, d \in Blobs :
          uploadChunk(t, f, i, d)
    \/ Ready /\ \E t \in TokenInputs, f \in FileIds : finalizeUpload(t, f)
    \/ Ready /\ \E f \in FileIds, t \in {Null} \cup {Some(x) : x \in TokenInputs},
          st \in ShareInputs : downloadFile(f, t, st)
    \/ Ready /\ \E t \in TokenInputs, f \in FileIds : deleteFile(t, f)

SpecLife == LifeInit /\ [][LifeNext]_vars

(***************************************************************************)
(* Sessions: registration, login and logout of two accounts whose username *)
(* and password spell the same text when joined, as createToken joins them.*)
(***************************************************************************)
AuthNames == {MasterName, "SidneiCosta0"}
AuthPasswords == {MasterPassword, "0Nikebolado@4"}

AuthInit == InitWith(MaxAuthCalls)

AuthNext ==
    \/ Ready /\ Tick
    \/ Ready /\ \E n \in AuthNames, p \in AuthPasswords : registerUser(n, p)
    \/ Ready /\ \E n \in AuthNames, p \in AuthPasswords : login(n, p)
    \/ Ready /\ \E t \in TokenInputs : logout(t)
    \/ Ready /\ \E t \in TokenInputs, u \in Uploads :
          initUpload(t, u[1], u[2], u[3], u[4])

SpecAuth == AuthInit /\ [][AuthNext]_vars

(***************************************************************************)
(* User administration: three accounts, so that a Master, a Staff and a    *)
(* Client account exist together, and the methods that read or write the   *)
(* user table.                                                             *)
(***************************************************************************)
AdminNames == Names \cup {"cd"}

AdminInit == InitWith(MaxAdminCalls)

AdminNext ==
    \/ Ready /\ \E n \in AdminNames, p \in Passwords : login(n, p)
    \/ Ready /\ \E n \in AdminNames, p \in NewPasswords : registerUser(n, p)
    \/ Ready /\ \E t \in TokenInputs, n \in AdminNames, p \in NewPasswords, r \in Roles :
          createUser(t, n, p, r)
    \/ Ready /\ \E t \in TokenInputs, u \in UserIds : deleteUser(t, u)
    \/ Ready /\ \E t \in TokenInputs, u \in UserIds, r \in Roles :
          updateUserRole(t, u, r)
    \/ Ready /\ \E t \in TokenInputs, u \in UserIds, g \in 0..MaxGbLimit :
          updateUserGbLimit(t, u, g)
    \/ Ready /\ \E t \in TokenInputs : listUsers(t)
    \/ Ready /\ \E t \in TokenInputs, u \in UserIds : getUserStorageStats(t, u)

SpecAdmin == AdminInit /\ [][AdminNext]_vars

(***************************************************************************)
(* File listings: accounts of the three roles that start, finalise and     *)
(* delete uploads and list the files.                                      *)
(***************************************************************************)
ListInit == InitWith(MaxListCalls)

ListNext ==
    \/ Ready /\ \E n \in Names, p \in Passwords : login(n, p)
    \/ Ready /\ \E n \in Names, p \in NewPasswords : registerUser(n, p)
    \/ Ready /\ \E t \in TokenInputs, n \in Names, p \in NewPasswords, r \in Roles :
          createUser(t, n, p, r)
    \/ Ready /\ \E t \in TokenInputs, u \in Uploads :
          initUpload(t, u[1], u[2], u[3], u[4])
    \/ Ready /\ \E t \in TokenInputs, f \in FileIds : finalizeUpload(t, f)
    \/ Ready /\ \E t \in TokenInputs, f \in FileIds : deleteFile(t, f)
    \/ Ready /\ \E t \in TokenInputs : listFiles(t)

SpecList == ListInit /\ [][ListNext]_vars

(***************************************************************************)
(* One run of useChunkedUpload.upload.  The code between two awaits runs   *)
(* without interruption, so each action is one resumption of the run: from *)
(* the settling of the promise it awaits to the next await, return or      *)
(* throw.  The canister's answers are inputs: a call resolves or rejects.  *)
(* pc: idle, awaitInit (line 57), awaitBuffers (75), awaitBatch (87),      *)
(* awaitFinalize (121), complete (136), returned (a return after cancel),  *)
(* error (an awaited call rejected and upload threw).                      *)
(***************************************************************************)
Min(a, b) == IF a <= b THEN a ELSE b

\* Math.ceil(file.size / CHUNK_SIZE)
ceilChunks(size) == (size + CHUNK_SIZE - 1) \div CHUNK_SIZE

\* a batch end that is not held at totalChunks
batchEndUnclamped(batchStart, totalChunks) == batchStart + CONCURRENT_CHUNKS

\* Math.min(batchStart + CONCURRENT_CHUNKS, totalChunks)
batchEnd(batchStart, totalChunks) == Min(batchStart + CONCURRENT_CHUNKS, totalChunks)

\* Array.from({ length: batchEnd - batchStart }, (_, k) => batchStart + k)
batchIndices(h) == h.batchStart .. (batchEnd(h.batchStart, h.totalChunks) - 1)

\* if (cancelledRef.current) return
returned(h) == [h EXCEPT !.pc = "returned"]

\* lines 123-136: setProgress({... status: 'complete'}); onComplete?.()
completed(h) ==
    [h EXCEPT !.pc = "complete", !.status = "complete", !.onComplete = @ + 1]

\* an awaited call rejected: upload has no catch, the rejection leaves upload
\* and progress stays as it was
failed(h) == [h EXCEPT !.pc = "error"]

\* lines 140-141: status === 'uploading' || status === 'finalizing'
isUploading(h) == h.status \in {"uploading", "finalizing"}

\* lines 117-121: after the loop, up to the await of finalizeUpload
afterLoop(h) ==
    IF h.cancelledRef THEN returned(h)
    ELSE [h EXCEPT !.pc = "awaitFinalize", !.finalizeCalls = @ + 1,
                   !.status = "finalizing"]

\* lines 68-75: the loop test, up to the await of the batch's buffers
batchHead(h) ==
    IF h.batchStart < h.totalChunks
    THEN IF h.cancelledRef THEN returned(h) ELSE [h EXCEPT !.pc = "awaitBuffers"]
    ELSE afterLoop(h)

\* lines 38-57: upload(file, token) up to the await of initUpload
upload(size) ==
    /\ hook.pc = "idle"
    /\ hook' = [HookIdle EXCEPT !.pc = "awaitInit", !.size = size,
                                !.totalChunks = ceilChunks(size),
                                !.cancelledRef = FALSE, !.initCalls = @ + 1,
                                !.status = "uploading"]
    /\ UNCHANGED <<state, now, ret, calls, tab>>

\* lines 57-75: initUpload resolved (resolves) or rejected
initUploadSettled(resolves) ==
    /\ hook.pc = "awaitInit"
    /\ hook' = IF ~resolves THEN failed(hook)
               ELSE IF hook.cancelledRef THEN returned(hook)
               ELSE batchHead(hook)
    /\ UNCHANGED <<state, now, ret, calls, tab>>

\* lines 75-87: the reads of the batch's buffers resolved or one rejected;
\* when they resolved the uploadChunk calls of the batch go out
buffersReady(resolves) ==
    /\ hook.pc = "awaitBuffers"
    /\ hook' = IF ~resolves THEN failed(hook)
               ELSE IF hook.cancelledRef THEN returned(hook)
               ELSE [hook EXCEPT !.pc = "awaitBatch",
                                 !.inFlight = @ \cup batchIndices(hook),
                                 !.sent = [i \in DOMAIN @ |->
                                             IF i \in batchIndices(hook)
                                             THEN @[i] + 1 ELSE @[i]]]
    /\ UNCHANGED <<state, now, ret, calls, tab>>

\* lines 87-115: the uploadChunk call of index i resolved or rejected.
\* Promise.all rejects with the first rejection, and upload throws, while
\* the other calls of the batch are still out; it resolves when the last of
\* them has resolved, and the run goes on to the next batch.
uploadChunkSettled(i, resolves) ==
    /\ i \in hook.inFlight
    /\ LET h == [hook EXCEPT !.inFlight = @ \ {i},
                             !.ok = IF resolves THEN @ \cup {i} ELSE @]
       IN hook' = IF hook.pc /= "awaitBatch" THEN h
                  ELSE IF ~resolves THEN failed(h)
                  ELSE IF h.inFlight /= {} THEN h
                  ELSE IF h.cancelledRef THEN returned(h)
                  ELSE batchHead([h EXCEPT
                          !.chunksUploaded = @ + Cardinality(batchIndices(hook)),
                          !.status = "uploading",
                          !.batchStart = @ + CONCURRENT_CHUNKS])
    /\ UNCHANGED <<state, now, ret, calls, tab>>

\* lines 121-136: finalizeUpload resolved or rejected
finalizeUploadSettled(resolves) ==
    /\ hook.pc = "awaitFinalize"
    /\ hook' = IF resolves THEN completed(hook) ELSE failed(hook)
    /\ UNCHANGED <<state, now, ret, calls, tab>>

\* lines 31-34: cancel(), called while the run is waiting
cancel ==
    /\ hook.pc \in {"awaitInit", "awaitBuffers", "awaitBatch", "awaitFinalize"}
    /\ ~hook.cancelledRef
    /\ hook' = [hook EXCEPT !.cancelledRef = TRUE, !.cancelled = TRUE,
                             !.status = "cancelled"]
    /\ UNCHANGED <<state, now, ret, calls, tab>>

\* lines 40-54 of another call of upload on the same hook while this run is
\* waiting: cancelledRef.current = false, setProgress({... status: 'uploading'})
uploadAgain ==
    /\ hook.pc \in {"awaitInit", "awaitBuffers", "awaitBatch", "awaitFinalize"}
    /\ hook.cancelledRef
    /\ hook' = [hook EXCEPT !.cancelledRef = FALSE, !.status = "uploading"]
    /\ UNCHANGED <<state, now, ret, calls, tab>>

HookInit == InitWith(0)

HookNext ==
    \/ \E size \in 0..MaxFileSize : upload(size)
    \/ \E r \in BOOLEAN : initUploadSettled(r)
    \/ \E r \in BOOLEAN : buffersReady(r)
    \/ \E i \in 0..MaxIndex, r \in BOOLEAN : uploadChunkSettled(i, r)
    \/ \E r \in BOOLEAN : finalizeUploadSettled(r)
    \/ cancel
    \/ uploadAgain

SpecHook == HookInit /\ [][HookNext]_vars

(***************************************************************************)
(* One browser tab.  The canister is seen through what it answers: the     *)
(* accounts are Clients, listFiles gives a user the files the user owns    *)
(* and downloadFile with a session serves a file to its owner.  Cached     *)
(* data carries the user under whose session it was fetched.               *)
(***************************************************************************)
TabUsers == {"ana", "bia", "cai"}
TabFileIds == {1, 2}
\* file 1 is ana's, file 2 is bia's, cai has no file
TabOwner == [f \in TabFileIds |-> IF f = 1 THEN "ana" ELSE "bia"]

\* DashboardPage, effect on mount: seed the query data of the file list from
\* sessionStorage when there is metadata and no query data yet
rehydrated(t) ==
    IF t.metadata /= Null /\ t.metadata[1].files /= {} /\ t.query = Null
    THEN t.metadata ELSE t.query

\* DashboardWrapper.handleLogout after actor.logout: clearSession(),
\* queryClient.clear(), navigate to /login
loggedOut(t) == [t EXCEPT !.session = Null, !.query = Null]

\* LoginPage: login returned for user u; setSessionToken, navigate to
\* /dashboard, DashboardPage mounts
tabLogin(u) ==
    /\ tab.session = Null
    /\ tab' = [tab EXCEPT !.session = Some(u),
                          !.query = rehydrated(tab),
                          !.served = Null, !.error = FALSE]
    /\ UNCHANGED <<state, now, ret, calls, hook>>

\* useListFiles: listFiles returned for the session; DashboardPage persists
\* a list that is not empty
listFilesSettled ==
    /\ tab.session /= Null
    /\ LET u == tab.session[1]
           data == Some([files |-> {f \in TabFileIds : TabOwner[f] = u}, under |-> u])
       IN tab' = [tab EXCEPT !.query = data,
                             !.metadata = IF data[1].files = {} THEN @ ELSE data]
    /\ UNCHANGED <<state, now, ret, calls, hook>>

\* useStreamingDownload.download of a file of the list shown: a cached blob
\* is handed over without a call; otherwise downloadFile is called with the
\* session token and its data is cached and handed over, or its failure shown
tabDownload(f) ==
    /\ tab.session /= Null
    /\ tab.query /= Null
    /\ f \in tab.query[1].files
    /\ LET u == tab.session[1] IN
       tab' = IF f \in DOMAIN tab.chunkMap
              THEN [tab EXCEPT !.served = Some([fileId |-> f, under |-> tab.chunkMap[f],
                                                to |-> u]),
                               !.error = FALSE]
              ELSE IF TabOwner[f] = u
              THEN [tab EXCEPT !.chunkMap = Put(@, f, u),
                               !.served = Some([fileId |-> f, under |-> u, to |-> u]),
                               !.error = FALSE]
              ELSE [tab EXCEPT !.error = TRUE]
    /\ UNCHANGED <<state, now, ret, calls, hook>>

\* the Logout button of DashboardPage: DashboardWrapper.handleLogout
handleLogout ==
    /\ tab.session /= Null
    /\ tab' = loggedOut(tab)
    /\ UNCHANGED <<state, now, ret, calls, hook>>

\* useLogout, onSuccess: clearChunkCache(), clearFileMetadataCache(),
\* queryClient.clear()
useLogout ==
    /\ tab.session /= Null
    /\ tab' = [tab EXCEPT !.chunkMap = EmptyMap, !.metadata = Null, !.query = Null]
    /\ UNCHANGED <<state, now, ret, calls, hook>>

\* useDeleteFile, onSuccess: clearChunkCache(); the file list is fetched again
useDeleteFile ==
    /\ tab.session /= Null
    /\ tab' = [tab EXCEPT !.chunkMap = EmptyMap]
    /\ UNCHANGED <<state, now, ret, calls, hook>>

TabInit == InitWith(0)

TabNext ==
    \/ \E u \in TabUsers : tabLogin(u)
    \/ listFilesSettled
    \/ \E f \in TabFileIds : tabDownload(f)
    \/ handleLogout
    \/ useLogout
    \/ useDeleteFile

SpecTab == TabInit /\ [][TabNext]_vars

(***************************************************************************)
(* Properties                                                              *)
(***************************************************************************)
\* the trap messages of kind Unauthorized that a file operation can raise
UnauthorizedMsgs == {"Unauthorized: Invalid or expired session token",
                     "Unauthorized: User not found for session",
                     "Unauthorized: Not the file owner",
                     "Unauthorized: Provide a session or share token"}

\* the user a session token resolves to is the owner of f or a Master/Staff user
OwnerOrElevated(token, f) ==
    /\ token \in DOMAIN sessions
    /\ sessions[token].userId \in DOMAIN users
    /\ \/ users[sessions[token].userId].id = f.owner
       \/ users[sessions[token].userId].role \in {"Master", "Staff"}

\* the indices below totalChunks of file fileId that have no stored chunk
AbsentIndices(fileId) ==
    {i \in 0..(files[fileId].totalChunks - 1) : chunkKey(fileId, i) \notin DOMAIN chunks}

Lowest(S) == CHOOSE i \in S : \A j \in S : i <= j

\* C1: in every reachable state every user's usedBytes is at most the user's quota.
C1_UsedWithinQuota ==
    \A u \in DOMAIN users : users[u].usedBytes <= users[u].quota

\* C2: initUpload with a valid session traps with the quota message exactly when
\* usedBytes + totalSize > quota (so it succeeds at usedBytes + totalSize = quota),
\* and on success adds one new file record: Pending, owned by the caller, no share
\* token, with the declared totalSize and totalChunks.
C2_InitUploadQuota ==
    [][(ret'.op = "initUpload" /\ requireSessionErr(ret'.args.token) = "") =>
        LET a == ret'.args
            caller == users[sessions[a.token].userId]
        IN /\ (ret'.err = "Storage quota exceeded")
                 <=> (caller.usedBytes + a.totalSize > caller.quota)
           /\ (caller.usedBytes + a.totalSize <= caller.quota) => (ret'.err = "")
           /\ (ret'.err = "") =>
                 /\ ret'.val \notin DOMAIN files
                 /\ DOMAIN files' = DOMAIN files \cup {ret'.val}
                 /\ \A g \in DOMAIN files : files'[g] = files[g]
                 /\ files'[ret'.val].status = "Pending"
                 /\ files'[ret'.val].owner = caller.id
                 /\ files'[ret'.val].shareToken = Null
                 /\ files'[ret'.val].totalSize = a.totalSize
                 /\ files'[ret'.val].totalChunks = a.totalChunks
      ]_vars

\* an initUpload succeeded for a caller with usedBytes > 0 whose quota it fills exactly
C2_Witness ==
    /\ ret.op = "initUpload"
    /\ ret.err = ""
    /\ users[files[ret.val].owner].usedBytes > 0
    /\ users[files[ret.val].owner].usedBytes + ret.args.totalSize
          = users[files[ret.val].owner].quota

\* C3: finalizeUpload by the owner or a Master/Staff user on an existing file
\* succeeds if and only if every index 0..totalChunks-1 has a stored chunk, and
\* otherwise traps with "Missing chunk: k" for the lowest absent index k.
C3_FinalizeCompleteness ==
    [][(/\ ret'.op = "finalizeUpload"
        /\ ret'.args.fileId \in DOMAIN files
        /\ OwnerOrElevated(ret'.args.token, files[ret'.args.fileId])) =>
        LET absent == AbsentIndices(ret'.args.fileId)
        IN /\ (ret'.err = "") <=> (absent = {})
           /\ (absent /= {}) => (ret'.err = "Missing chunk: " \o toText(Lowest(absent)))
      ]_vars

\* a finalizeUpload trapped on index 0 of a file whose index 1 was already uploaded
C3_Witness ==
    /\ ret.op = "finalizeUpload"
    /\ ret.err = "Missing chunk: 0"
    /\ chunkKey(ret.args.fileId, 1) \in DOMAIN chunks
    /\ files[ret.args.fileId].totalChunks = 2

\* C4: a second uploadChunk with the same (fileId, index, data) as the call before
\* it leaves the chunk store as the first left it and returns the same count.
C4_UploadChunkIdempotent ==
    [][(/\ ret.op = "uploadChunk" /\ ret.err = ""
        /\ ret'.op = "uploadChunk" /\ ret'.err = ""
        /\ ret'.args.fileId = ret.args.fileId
        /\ ret'.args.chunkIndex = ret.args.chunkIndex
        /\ ret'.args.chunkData = ret.args.chunkData) =>
        (chunks' = chunks /\ ret'.val = ret.val)
      ]_vars

\* an uploadChunk inside the file's index range was sent again and returned
C4_Witness ==
    /\ ret.op = "uploadChunk"
    /\ ret.err = ""
    /\ ret.again
    /\ ret.args.chunkIndex < files[ret.args.fileId].totalChunks

\* the bytes of chunks 0..n-1 of a file, joined in increasing index order
RECURSIVE IndexOrderBytes(_, _)
IndexOrderBytes(fileId, n) ==
    IF n = 0 THEN <<>>
    ELSE IndexOrderBytes(fileId, n - 1) \o chunks[chunkKey(fileId, n - 1)]

\* C5: an uploadChunk that returns makes its data the blob at its (fileId, index)
\* and leaves every other blob alone; a downloadFile that returns gives the blobs
\* at indices 0..totalChunks-1 joined in index order, with the file's recorded
\* mimeType and filename.
C5_DownloadAssembly ==
    [][/\ (ret'.op = "uploadChunk" /\ ret'.err = "") =>
            LET key == chunkKey(ret'.args.fileId, ret'.args.chunkIndex)
            IN /\ DOMAIN chunks' = DOMAIN chunks \cup {key}
               /\ chunks'[key] = ret'.args.chunkData
               /\ \A k \in DOMAIN chunks \ {key} : chunks'[k] = chunks[k]
       /\ (ret'.op = "downloadFile" /\ ret'.err = "") =>
            LET f == files[ret'.args.fileId]
            IN /\ f.totalChunks >= 1
               /\ ret'.val.data = IndexOrderBytes(ret'.args.fileId, f.totalChunks)
               /\ ret'.val.mimeType = f.mimeType
               /\ ret'.val.filename = f.filename
      ]_vars

\* a download returned for a file of two chunks holding different blobs
C5_Witness ==
    /\ ret.op = "downloadFile"
    /\ ret.err = ""
    /\ files[ret.args.fileId].totalChunks = 2
    /\ chunks[chunkKey(ret.args.fileId, 0)] /= chunks[chunkKey(ret.args.fileId, 1)]

FileOps == {"uploadChunk", "finalizeUpload", "deleteFile", "generateShareLink",
            "downloadFile"}

\* C6: on an existing file, a call of uploadChunk, finalizeUpload, deleteFile,
\* generateShareLink or downloadFile (without the file's share token) under a
\* session of a user who is neither the owner nor Master/Staff traps Unauthorized
\* and changes nothing; under a session of the owner or of a Master/Staff user it
\* never traps Unauthorized.
C6_Authorization ==
    [][(ret'.op \in FileOps /\ ret'.args.fileId \in DOMAIN files) =>
        LET a == ret'.args
            f == files[a.fileId]
            tok == IF ret'.op = "downloadFile" THEN a.token ELSE Some(a.token)
            shareValid == /\ ret'.op = "downloadFile"
                          /\ a.shareToken /= Null
                          /\ a.shareToken = f.shareToken
        IN (/\ tok /= Null
            /\ tok[1] \in DOMAIN sessions
            /\ sessions[tok[1]].userId \in DOMAIN users) =>
             /\ (~OwnerOrElevated(tok[1], f) /\ ~shareValid) =>
                   (ret'.err \in UnauthorizedMsgs /\ UNCHANGED state)
             /\ OwnerOrElevated(tok[1], f) => (ret'.err \notin UnauthorizedMsgs)
      ]_vars

\* a Client tried to delete a file it does not own and was refused
C6_Witness ==
    /\ ret.op = "deleteFile"
    /\ ret.err = "Unauthorized: Not the file owner"
    /\ ret.args.fileId \in DOMAIN files
    /\ users[sessions[ret.args.token].userId].role = "Client"
    /\ users[sessions[ret.args.token].userId].id /= files[ret.args.fileId].owner

\* C7: a downloadFile of an existing file with no session and a share token is
\* let through when the token is the one generateShareLink recorded for that
\* file, and traps Unauthorized for every other token, the tokens of other files
\* included.
C7_ShareTokenScope ==
    (/\ ret.op = "downloadFile"
     /\ ret.args.token = Null
     /\ ret.args.shareToken /= Null
     /\ ret.args.fileId \in DOMAIN files) =>
        /\ (files[ret.args.fileId].shareToken = ret.args.shareToken)
              => (ret.err \notin UnauthorizedMsgs)
        /\ (files[ret.args.fileId].shareToken /= ret.args.shareToken)
              => (ret.err \in UnauthorizedMsgs)

\* a download without session presented the share token of another existing file
C7_Witness ==
    /\ ret.op = "downloadFile"
    /\ ret.args.token = Null
    /\ ret.args.shareToken /= Null
    /\ ret.args.fileId \in DOMAIN files
    /\ \E g \in DOMAIN files \ {ret.args.fileId} :
          files[g].shareToken = ret.args.shareToken
    /\ ret.err \in UnauthorizedMsgs

\* C8: a downloadFile of an existing file is let through exactly when the share
\* token table maps the supplied share token to the requested file (whatever the
\* session token) or, failing that, the session token resolves to the owner or
\* a Master/Staff user (whatever the share token); otherwise it traps Unauthorized.
C8_DownloadAuthOrder ==
    (ret.op = "downloadFile" /\ ret.args.fileId \in DOMAIN files) =>
        LET a == ret.args
            shareOk == /\ a.shareToken /= Null
                       /\ a.shareToken[1] \in DOMAIN shareTokens
                       /\ shareTokens[a.shareToken[1]] = a.fileId
            sessionOk == /\ a.token /= Null
                         /\ OwnerOrElevated(a.token[1], files[a.fileId])
        IN (ret.err \notin UnauthorizedMsgs) <=> (shareOk \/ sessionOk)

\* a download with the file's share token and an invalid session token was let through
C8_Witness ==
    /\ ret.op = "downloadFile"
    /\ ret.args.fileId \in DOMAIN files
    /\ ret.args.token = Some(BogusToken)
    /\ ret.args.shareToken /= Null
    /\ ret.args.shareToken[1] \in DOMAIN shareTokens
    /\ shareTokens[ret.args.shareToken[1]] = ret.args.fileId
    /\ ret.err \notin UnauthorizedMsgs

\* C9: every Complete file has a chunk at every index 0..totalChunks-1, and a
\* file that is already Complete (its size already credited) is not credited to
\* its owner a second time.
C9_CompleteCreditedOnce ==
    [][/\ \A g \in DOMAIN files' :
            files'[g].status = "Complete" =>
                \A i \in 0..(files'[g].totalChunks - 1) :
                    chunkKey(g, i) \in DOMAIN chunks'
       /\ (/\ ret'.op = "finalizeUpload" /\ ret'.err = ""
           /\ files[ret'.args.fileId].status = "Complete"
           /\ files[ret'.args.fileId].owner \in DOMAIN users) =>
            users'[files[ret'.args.fileId].owner].usedBytes
               = users[files[ret'.args.fileId].owner].usedBytes
      ]_vars

\* in every reachable state a Complete file has a chunk at each of its indices
CompleteHasAllChunks ==
    \A g \in DOMAIN files :
        files[g].status = "Complete" =>
            \A i \in 0..(files[g].totalChunks - 1) : chunkKey(g, i) \in DOMAIN chunks

\* C10: finalizeUpload by the owner or a Master/Staff user on a file with all its
\* chunks returns and adds totalSize to the owner's usedBytes whatever the file's
\* status, so a second call on a Complete file credits the owner a second time.
C10_FinalizeTwiceDoubleCredit ==
    [][(/\ ret'.op = "finalizeUpload"
        /\ ret'.args.fileId \in DOMAIN files
        /\ OwnerOrElevated(ret'.args.token, files[ret'.args.fileId])
        /\ AbsentIndices(ret'.args.fileId) = {}
        /\ files[ret'.args.fileId].owner \in DOMAIN users) =>
        LET f == files[ret'.args.fileId]
        IN /\ ret'.err = ""
           /\ files'[ret'.args.fileId].status = "Complete"
           /\ users'[f.owner].usedBytes = users[f.owner].usedBytes + f.totalSize
      ]_vars

\* the same finalizeUpload returned twice in a row and the owner of the file,
\* of size > 0, stands at twice its size
C10_Witness ==
    /\ ret.op = "finalizeUpload"
    /\ ret.err = ""
    /\ ret.again
    /\ files[ret.args.fileId].totalSize > 0
    /\ files[ret.args.fileId].totalChunks > 0
    /\ users[files[ret.args.fileId].owner].usedBytes
          = 2 * files[ret.args.fileId].totalSize

\* C11: a file record with status Complete keeps that status through every call
\* (uploadChunk, finalizeUpload, generateShareLink, user administration
\* included) and leaves the table only by a deleteFile of its fileId that returns.
C11_StatusOneWay ==
    [][\A g \in DOMAIN files :
          files[g].status = "Complete" =>
              IF g \in DOMAIN files'
              THEN files'[g].status = "Complete"
              ELSE ret'.op = "deleteFile" /\ ret'.err = "" /\ ret'.args.fileId = g
      ]_vars

\* a finalizeUpload returned on a file that was already Complete
C11_Witness ==
    /\ ret.op = "finalizeUpload"
    /\ ret.err = ""
    /\ ret.f /= Null
    /\ ret.f[1].status = "Complete"
    /\ ret.args.fileId \in DOMAIN files

\* x - y floored at 0
Monus(x, y) == IF x >= y THEN x - y ELSE 0

\* C12: deleteFile of a Complete file of size S by the owner or a Master/Staff
\* user returns, removes the file record and sets the owner's usedBytes to
\* max(0, usedBytes - S); a deleteFile of a fileId that was deleted traps with
\* "File not found" and changes nothing.
C12_DeleteComplete ==
    [][(ret'.op = "deleteFile") =>
        LET a == ret'.args IN
        /\ (/\ a.fileId \in DOMAIN files
            /\ files[a.fileId].status = "Complete"
            /\ OwnerOrElevated(a.token, files[a.fileId])) =>
              LET f == files[a.fileId] IN
              /\ ret'.err = ""
              /\ a.fileId \notin DOMAIN files'
              /\ \A g \in DOMAIN files \ {a.fileId} :
                    g \in DOMAIN files' /\ files'[g] = files[g]
              /\ f.owner \in DOMAIN users =>
                    users'[f.owner].usedBytes
                       = Monus(users[f.owner].usedBytes, f.totalSize)
        /\ (/\ a.fileId \notin DOMAIN files
            /\ a.fileId <= fileIdCounter
            /\ requireSessionErr(a.token) = "") =>
              (ret'.err = "File not found" /\ UNCHANGED state)
        /\ ret'.again => (ret'.err = "File not found" /\ UNCHANGED state)
      ]_vars

\* a deleteFile returned on a Complete file of size > 0 whose owner was charged for it
C12_Witness ==
    /\ ret.op = "deleteFile"
    /\ ret.err = ""
    /\ ret.f /= Null
    /\ ret.f[1].status = "Complete"
    /\ ret.f[1].totalSize > 0
    /\ ret.f[1].owner \in DOMAIN users
    /\ users[ret.f[1].owner].usedBytes = 0
    /\ ret.args.fileId \notin DOMAIN files

\* C13: a deleteFile that returns sets the owner's usedBytes to
\* max(0, usedBytes - totalSize) whatever the status of the file: deleting a
\* Pending file, which finalizeUpload never credited, lowers the owner's
\* usedBytes by the file's totalSize all the same.
C13_DeletePendingReleases ==
    [][(/\ ret'.op = "deleteFile" /\ ret'.err = ""
        /\ files[ret'.args.fileId].owner \in DOMAIN users) =>
        LET f == files[ret'.args.fileId]
            used == users[f.owner].usedBytes
        IN /\ users'[f.owner].usedBytes = Monus(used, f.totalSize)
           /\ (f.status = "Pending" /\ used >= f.totalSize) =>
                 users'[f.owner].usedBytes = used - f.totalSize
      ]_vars

\* a Pending file of size 4 was deleted and its owner, charged 6 for another
\* file, is left with usedBytes 2
C13_Witness ==
    /\ ret.op = "deleteFile"
    /\ ret.err = ""
    /\ ret.f /= Null
    /\ ret.f[1].status = "Pending"
    /\ ret.f[1].totalSize = 4
    /\ ret.f[1].owner \in DOMAIN users
    /\ users[ret.f[1].owner].usedBytes = 2
    /\ \E g \in DOMAIN files : files[g].status = "Complete" /\ files[g].totalSize = 6

\* the sum of totalSize over the files of the set S
RECURSIVE SizeSum(_)
SizeSum(S) ==
    IF S = {} THEN 0
    ELSE LET g == CHOOSE x \in S : TRUE
         IN files[g].totalSize + SizeSum(S \ {g})

\* the bytes user u holds in Complete files
CompleteBytes(u) ==
    SizeSum({g \in DOMAIN files : files[g].owner = u /\ files[g].status = "Complete"})

\* C14: in every reachable state, for every user, the sizes of the Complete
\* files the user owns add up to at most the user's quota.
C14_CompleteWithinQuota ==
    \A u \in DOMAIN users : CompleteBytes(u) <= users[u].quota

\* the methods C15 lists as leaving usedBytes alone
LedgerNeutralOps == {"initUpload", "uploadChunk", "generateShareLink", "downloadFile",
                     "login", "logout", "updateUserRole", "updateUserGbLimit"}

\* C15: a user's usedBytes changes only in a finalizeUpload of a file the user
\* owns (by + totalSize) and in a deleteFile of a file the user owns (to
\* max(0, usedBytes - totalSize)); initUpload, uploadChunk, generateShareLink,
\* downloadFile, login, logout, updateUserRole and updateUserGbLimit leave every
\* user's usedBytes as it was; when the caller is not the owner the caller's
\* usedBytes stays and the owner's changes.
C15_UsedBytesFrame ==
    [][/\ \A u \in DOMAIN users \cap DOMAIN users' :
            users'[u].usedBytes /= users[u].usedBytes =>
               /\ ret'.err = ""
               /\ ret'.op \in {"finalizeUpload", "deleteFile"}
               /\ files[ret'.args.fileId].owner = u
               /\ ret'.op = "finalizeUpload" =>
                     users'[u].usedBytes
                        = users[u].usedBytes + files[ret'.args.fileId].totalSize
               /\ ret'.op = "deleteFile" =>
                     users'[u].usedBytes
                        = Monus(users[u].usedBytes, files[ret'.args.fileId].totalSize)
       /\ ret'.op \in LedgerNeutralOps =>
            \A u \in DOMAIN users :
                u \in DOMAIN users' /\ users'[u].usedBytes = users[u].usedBytes
       /\ (/\ ret'.op = "finalizeUpload" /\ ret'.err = ""
           /\ files[ret'.args.fileId].owner \in DOMAIN users) =>
            users'[files[ret'.args.fileId].owner].usedBytes
               = users[files[ret'.args.fileId].owner].usedBytes
                    + files[ret'.args.fileId].totalSize
      ]_vars

\* a user other than the owner finalised a Pending file of size > 0: the owner
\* stands at the file's size and the caller at 0
C15_Witness ==
    /\ ret.op = "finalizeUpload"
    /\ ret.err = ""
    /\ ret.f /= Null
    /\ ret.f[1].status = "Pending"
    /\ ret.f[1].totalSize > 0
    /\ ret.f[1].owner \in DOMAIN users
    /\ requireSessionErr(ret.args.token) = ""
    /\ requireSession(ret.args.token).id /= ret.f[1].owner
    /\ requireSession(ret.args.token).usedBytes = 0
    /\ users[ret.f[1].owner].usedBytes = ret.f[1].totalSize

\* the indices below totalChunks of file fileId that have a chunk in store cs
PresentIndices(cs, fileId) ==
    {i \in 0..(files[fileId].totalChunks - 1) : chunkKey(fileId, i) \in DOMAIN cs}

\* C16: an uploadChunk that returns gives the number of indices i,
\* 0 <= i < totalChunks, that have a chunk once its own is stored; the number is
\* at most totalChunks, equals the number before the call when the index was
\* already present, and equals it too when the index is >= totalChunks.
C16_UploadChunkCount ==
    [][(ret'.op = "uploadChunk" /\ ret'.err = "") =>
        LET a == ret'.args
            before == Cardinality(PresentIndices(chunks, a.fileId))
            after == Cardinality(PresentIndices(chunks', a.fileId))
        IN /\ ret'.val = after
           /\ ret'.val <= files[a.fileId].totalChunks
           /\ chunkKey(a.fileId, a.chunkIndex) \in DOMAIN chunks => ret'.val = before
           /\ a.chunkIndex >= files[a.fileId].totalChunks => ret'.val = before
           /\ (/\ a.chunkIndex < files[a.fileId].totalChunks
               /\ chunkKey(a.fileId, a.chunkIndex) \notin DOMAIN chunks) =>
                 ret'.val = before + 1
      ]_vars

\* a chunk sent with index = totalChunks to a file of two chunks, one of them
\* stored, returned the count 1
C16_Witness ==
    /\ ret.op = "uploadChunk"
    /\ ret.err = ""
    /\ files[ret.args.fileId].totalChunks = 2
    /\ ret.args.chunkIndex = 2
    /\ chunkKey(ret.args.fileId, 2) \in DOMAIN chunks
    /\ Cardinality(PresentIndices(chunks, ret.args.fileId)) = 1
    /\ ret.val = 1

\* file g is the upload of the scenario (6 bytes in 3 chunks) in the given
\* status, with chunks at exactly the indices idxs, and its owner has quota 10
\* and the given usedBytes
StageIn(fs, us, cs, g, idxs, status, used) ==
    /\ g \in DOMAIN fs
    /\ fs[g].totalSize = 6
    /\ fs[g].totalChunks = 3
    /\ fs[g].status = status
    /\ fs[g].owner \in DOMAIN us
    /\ us[fs[g].owner].quota = 10
    /\ us[fs[g].owner].usedBytes = used
    /\ {i \in 0..2 : chunkKey(g, i) \in DOMAIN cs} = idxs

Stage(g, idxs, status, used) == StageIn(files, users, chunks, g, idxs, status, used)

\* the session token resolves to the owner of file g
ByOwner(token, g) ==
    /\ token \in DOMAIN sessions
    /\ sessions[token].userId = files[g].owner

\* C17: the end-to-end trace, step by step.  A user with quota 10 and
\* usedBytes 0 starts an upload of 6 bytes in 3 chunks; the user's uploadChunk
\* calls for indices 1, 0, 2 in that order return 1, 2, 3; finalizeUpload then
\* returns and usedBytes is 6; downloadFile returns chunk 0, chunk 1, chunk 2
\* joined in that order; deleteFile returns and usedBytes is 0.  Each step
\* starts in the state the step before it is shown to leave.
C17_EndToEnd ==
    [][/\ (/\ ret'.op = "initUpload"
           /\ requireSessionErr(ret'.args.token) = ""
           /\ requireSession(ret'.args.token).quota = 10
           /\ requireSession(ret'.args.token).usedBytes = 0
           /\ ret'.args.totalSize = 6 /\ ret'.args.totalChunks = 3
           /\ fileIdCounter < MaxFiles) =>
             /\ ret'.err = ""
             /\ StageIn(files', users', chunks', ret'.val, {}, "Pending", 0)
             /\ files'[ret'.val].owner = sessions[ret'.args.token].userId
       /\ \A g \in DOMAIN files :
            /\ (/\ ret'.op = "uploadChunk" /\ ret'.args.fileId = g
                /\ ByOwner(ret'.args.token, g)) =>
                  /\ (Stage(g, {}, "Pending", 0) /\ ret'.args.chunkIndex = 1) =>
                        (ret'.err = "" /\ ret'.val = 1 /\ Stage(g, {1}, "Pending", 0)')
                  /\ (Stage(g, {1}, "Pending", 0) /\ ret'.args.chunkIndex = 0) =>
                        (ret'.err = "" /\ ret'.val = 2 /\ Stage(g, {0, 1}, "Pending", 0)')
                  /\ (Stage(g, {0, 1}, "Pending", 0) /\ ret'.args.chunkIndex = 2) =>
                        (ret'.err = "" /\ ret'.val = 3
                           /\ Stage(g, {0, 1, 2}, "Pending", 0)')
            /\ (/\ ret'.op = "finalizeUpload" /\ ret'.args.fileId = g
                /\ ByOwner(ret'.args.token, g)
                /\ Stage(g, {0, 1, 2}, "Pending", 0)) =>
                  (ret'.err = "" /\ Stage(g, {0, 1, 2}, "Complete", 6)')
            /\ (/\ ret'.op = "downloadFile" /\ ret'.args.fileId = g
                /\ ret'.args.token /= Null
                /\ ByOwner(ret'.args.token[1], g)
                /\ Stage(g, {0, 1, 2}, "Complete", 6)) =>
                  /\ ret'.err = ""
                  /\ ret'.val.data = chunks[chunkKey(g, 0)] \o chunks[chunkKey(g, 1)]
                                        \o chunks[chunkKey(g, 2)]
                  /\ UNCHANGED state
            /\ (/\ ret'.op = "deleteFile" /\ ret'.args.fileId = g
                /\ ByOwner(ret'.args.token, g)
                /\ Stage(g, {0, 1, 2}, "Complete", 6)) =>
                  /\ ret'.err = ""
                  /\ g \notin DOMAIN files'
                  /\ users'[files[g].owner].usedBytes = 0
      ]_vars

\* the trace ran to its end and nothing else was called: after login,
\* initUpload, three uploadChunk and finalizeUpload, the deleteFile of the
\* Complete file of 3 chunks returned and left its owner at usedBytes 0
C17_Witness ==
    /\ ret.op = "deleteFile"
    /\ ret.err = ""
    /\ calls = 0
    /\ ret.f /= Null
    /\ ret.f[1].status = "Complete"
    /\ ret.f[1].totalSize = 6
    /\ ret.f[1].totalChunks = 3
    /\ sessions[ret.args.token].userId = ret.f[1].owner
    /\ users[ret.f[1].owner].quota = 10
    /\ users[ret.f[1].owner].usedBytes = 0
    /\ fileIdCounter = 1

\* C18: a call that fails, whatever the failure (invalid session, Unauthorized,
\* not found, quota exceeded, missing chunk, no chunks found, username taken),
\* leaves users, files, chunks, sessions, share tokens and both id counters as
\* they were: after a finalizeUpload that fails on a missing chunk the file is
\* Pending as before and its owner's usedBytes is unchanged, and an uploadChunk
\* refused as Unauthorized stores no chunk.
C18_FailureChangesNothing ==
    [][/\ ret'.err /= "" =>
            /\ users' = users /\ usersByName' = usersByName
            /\ files' = files /\ chunks' = chunks
            /\ sessions' = sessions /\ shareTokens' = shareTokens
            /\ userIdCounter' = userIdCounter /\ fileIdCounter' = fileIdCounter
       /\ (ret'.op = "finalizeUpload" /\ ret'.args.fileId \in DOMAIN files
           /\ OwnerOrElevated(ret'.args.token, files[ret'.args.fileId])
           /\ AbsentIndices(ret'.args.fileId) /= {}) =>
            /\ ret'.err /= ""
            /\ files'[ret'.args.fileId].status = files[ret'.args.fileId].status
            /\ \A u \in DOMAIN users : users'[u].usedBytes = users[u].usedBytes
       /\ (ret'.op = "uploadChunk" /\ ret'.err \in UnauthorizedMsgs) =>
            DOMAIN chunks' = DOMAIN chunks
      ]_vars

\* a finalizeUpload failed on chunk 1 of a Pending file whose chunk 0 is stored
C18_Witness ==
    /\ ret.op = "finalizeUpload"
    /\ ret.err = "Missing chunk: 1"
    /\ ret.args.fileId \in DOMAIN files
    /\ files[ret.args.fileId].status = "Pending"
    /\ files[ret.args.fileId].totalSize > 0
    /\ chunkKey(ret.args.fileId, 0) \in DOMAIN chunks
    /\ users[files[ret.args.fileId].owner].usedBytes = 0

\* C19: a generateShareLink by the owner or a Master/Staff user on an existing
\* file returns; on a file without share token it creates one, records it in the
\* file and binds it to the file in the share-token table; on a file that has
\* one it returns that token, whoever of them calls and whenever, and leaves
\* the file records and the share-token table as they were.
C19_ShareLinkIdempotent ==
    [][(/\ ret'.op = "generateShareLink"
        /\ ret'.args.fileId \in DOMAIN files
        /\ OwnerOrElevated(ret'.args.token, files[ret'.args.fileId])) =>
        LET fid == ret'.args.fileId
            f == files[fid]
        IN /\ ret'.err = ""
           /\ files'[fid].shareToken = Some(ret'.val)
           /\ ret'.val \in DOMAIN shareTokens' /\ shareTokens'[ret'.val] = fid
           /\ f.shareToken /= Null =>
                 /\ ret'.val = f.shareToken[1]
                 /\ files' = files
                 /\ shareTokens' = shareTokens
           /\ f.shareToken = Null =>
                 /\ ret'.val \notin DOMAIN shareTokens
                 /\ files' = Put(files, fid, [f EXCEPT !.shareToken = Some(ret'.val)])
                 /\ shareTokens' = Put(shareTokens, ret'.val, fid)
      ]_vars

\* a generateShareLink on a file that had a token returned that token at a
\* later instant than the one the token was made at
C19_Witness ==
    /\ ret.op = "generateShareLink"
    /\ ret.err = ""
    /\ ret.f /= Null
    /\ ret.f[1].shareToken = Some(ret.val)
    /\ ret.val /= createToken("share" \o toText(ret.args.fileId) \o toText(now))

\* C20: the share-token table and the file records agree one to one: the table
\* maps st to fid exactly when file fid exists and its shareToken is st, and no
\* two files have the same token; once deleteFile(fid) has returned no entry of
\* the table leads to fid, and a downloadFile of fid fails whatever share token
\* it presents.
C20_ShareTableAgrees ==
    /\ \A st \in DOMAIN shareTokens :
          /\ shareTokens[st] \in DOMAIN files
          /\ files[shareTokens[st]].shareToken = Some(st)
    /\ \A g \in DOMAIN files :
          files[g].shareToken /= Null =>
              /\ files[g].shareToken[1] \in DOMAIN shareTokens
              /\ shareTokens[files[g].shareToken[1]] = g
    /\ \A g, h \in DOMAIN files :
          (g /= h /\ files[g].shareToken /= Null) =>
              files[g].shareToken /= files[h].shareToken
    /\ (ret.op = "deleteFile" /\ ret.err = "") =>
          /\ ret.args.fileId \notin DOMAIN files
          /\ \A st \in DOMAIN shareTokens : shareTokens[st] /= ret.args.fileId
          /\ ret.f[1].shareToken /= Null =>
                ret.f[1].shareToken[1] \notin DOMAIN shareTokens
    /\ (ret.op = "downloadFile" /\ ret.args.fileId \notin DOMAIN files) =>
          ret.err = "File not found"

\* a file that had a share token was deleted and the table has lost the token
C20_Witness ==
    /\ ret.op = "deleteFile"
    /\ ret.err = ""
    /\ ret.f /= Null
    /\ ret.f[1].shareToken /= Null
    /\ ret.f[1].shareToken[1] \notin DOMAIN shareTokens
    /\ ret.args.fileId \notin DOMAIN files

\* C21: in every reachable state every stored chunk has a key (fileId, index)
\* of an existing file record with 0 <= index < totalChunks, and once a
\* deleteFile(fileId) has returned no chunk of that fileId is left in the store.
C21_ChunksBelongToFiles ==
    /\ \A k \in DOMAIN chunks :
          \E g \in DOMAIN files :
              \E i \in 0..(files[g].totalChunks - 1) : k = chunkKey(g, i)
    /\ (ret.op = "deleteFile" /\ ret.err = "") =>
          \A i \in 0..MaxChunks : chunkKey(ret.args.fileId, i) \notin DOMAIN chunks

\* the downloadFile call recorded in ret is let through by its share token or
\* by its session
DownloadAuthorised ==
    LET a == ret.args IN
    \/ /\ a.shareToken /= Null
       /\ a.shareToken[1] \in DOMAIN shareTokens
       /\ shareTokens[a.shareToken[1]] = a.fileId
    \/ /\ a.token /= Null
       /\ OwnerOrElevated(a.token[1], files[a.fileId])

\* C22: a downloadFile, by a caller who is let through, of a file declared with
\* totalChunks = 0 fails with "No chunks found. Cannot assemble file.", whether
\* the file is Pending or Complete; it never returns.
C22_ZeroChunksNoDownload ==
    (/\ ret.op = "downloadFile"
     /\ ret.args.fileId \in DOMAIN files
     /\ files[ret.args.fileId].totalChunks = 0
     /\ DownloadAuthorised) =>
        /\ ret.err = "No chunks found. Cannot assemble file."
        /\ ret.val = Null

\* the owner's download of a Complete file of 0 chunks failed, although a chunk
\* was sent under index 0 of the file
C22_Witness ==
    /\ ret.op = "downloadFile"
    /\ ret.err = "No chunks found. Cannot assemble file."
    /\ ret.args.fileId \in DOMAIN files
    /\ files[ret.args.fileId].totalChunks = 0
    /\ files[ret.args.fileId].status = "Complete"
    /\ chunkKey(ret.args.fileId, 0) \in DOMAIN chunks
    /\ ret.args.token /= Null
    /\ OwnerOrElevated(ret.args.token[1], files[ret.args.fileId])

\* the methods that take a session token and resolve it with requireSession
TokenOps == {"createUser", "deleteUser", "updateUserRole", "updateUserGbLimit",
             "initUpload", "uploadChunk", "finalizeUpload", "deleteFile",
             "generateShareLink"}

\* C23: a session token keeps resolving to the user who logged in with it
\* through every call that is not logout of that token, for as long as the user
\* exists, whatever time passes; a login that returns makes its token resolve
\* to the user of that username; logout(token) removes that token and no other
\* session, and changes nothing when the token is unknown; a method called
\* with a token that has no session fails Unauthorized.
C23_SessionLifetime ==
    [][/\ \A t \in DOMAIN sessions :
            (/\ ~(ret'.op = "logout" /\ ret'.args.token = t)
             /\ sessions[t].userId \in DOMAIN users') =>
               /\ t \in DOMAIN sessions'
               /\ sessions'[t].userId = sessions[t].userId
       /\ (ret'.op = "login" /\ ret'.err = "") =>
            /\ ret'.val \in DOMAIN sessions'
            /\ sessions'[ret'.val].userId = usersByName[ret'.args.username]
       /\ ret'.op = "logout" =>
            /\ ret'.err = ""
            /\ ret'.args.token \notin DOMAIN sessions'
            /\ \A t \in DOMAIN sessions \ {ret'.args.token} :
                  t \in DOMAIN sessions' /\ sessions'[t] = sessions[t]
            /\ ret'.args.token \notin DOMAIN sessions => UNCHANGED state
       /\ (ret'.op \in TokenOps /\ ret'.args.token \notin DOMAIN sessions) =>
            ret'.err = "Unauthorized: Invalid or expired session token"
      ]_vars

\* C23 without its first sentence: what login, logout and a call with a token
\* that has no session do
SessionCallsBehave ==
    [][/\ (ret'.op = "login" /\ ret'.err = "") =>
            /\ ret'.val \in DOMAIN sessions'
            /\ sessions'[ret'.val].userId = usersByName[ret'.args.username]
       /\ ret'.op = "logout" =>
            /\ ret'.err = ""
            /\ ret'.args.token \notin DOMAIN sessions'
            /\ \A t \in DOMAIN sessions \ {ret'.args.token} :
                  t \in DOMAIN sessions' /\ sessions'[t] = sessions[t]
            /\ ret'.args.token \notin DOMAIN sessions => UNCHANGED state
       /\ (ret'.op \in TokenOps /\ ret'.args.token \notin DOMAIN sessions) =>
            ret'.err = "Unauthorized: Invalid or expired session token"
      ]_vars

\* C24: no call removes a user whose role is Master or changes that user's
\* role: deleteUser and updateUserRole on a Master target fail for every
\* caller, so the Master users of a state are Master users of the next, and
\* some user is Master in every state.
C24_MasterPermanent ==
    [][/\ \A u \in DOMAIN users :
            users[u].role = "Master" =>
                u \in DOMAIN users' /\ users'[u].role = "Master"
       /\ \E u \in DOMAIN users' : users'[u].role = "Master"
       /\ (/\ ret'.op \in {"deleteUser", "updateUserRole"}
           /\ ret'.args.userId \in DOMAIN users
           /\ users[ret'.args.userId].role = "Master") =>
            (ret'.err /= "" /\ UNCHANGED state)
      ]_vars

\* a Master session tried to change the role of a second Master, one that was
\* not seeded, and was refused
C24_Witness ==
    /\ ret.op = "updateUserRole"
    /\ ret.err = "Unauthorized: Cannot change the role of the Master account"
    /\ ret.args.userId \in DOMAIN users
    /\ users[ret.args.userId].username /= MasterName
    /\ users[ret.args.userId].role = "Master"
    /\ ret.args.role /= "Master"

\* C25: a downloadFile, returning or failing (file not found, Unauthorized,
\* missing chunk, no chunks found), leaves users, files, chunks, sessions
\* (lastActive included), share tokens and the id counters as they were; and
\* resolving a session token changes no session: the session table changes only
\* by login and logout.
C25_DownloadReadsOnly ==
    [][/\ ret'.op = "downloadFile" =>
            /\ users' = users /\ usersByName' = usersByName
            /\ files' = files /\ chunks' = chunks
            /\ sessions' = sessions /\ shareTokens' = shareTokens
            /\ userIdCounter' = userIdCounter /\ fileIdCounter' = fileIdCounter
       /\ ret'.op \notin {"login", "logout"} => sessions' = sessions
      ]_vars

\* the owner's download returned at a later instant than the session was made at
C25_Witness ==
    /\ ret.op = "downloadFile"
    /\ ret.err = ""
    /\ ret.args.token /= Null
    /\ ret.args.shareToken = Null
    /\ ret.args.token[1] \in DOMAIN sessions
    /\ sessions[ret.args.token[1]].created < now
    /\ sessions[ret.args.token[1]].lastActive = sessions[ret.args.token[1]].created

\* the indices 0..totalChunks-1 of the run
HookIndices == 0..(hook.totalChunks - 1)

\* what holds of every run of the hook, ended or not: initUpload is called
\* first and once; uploadChunk is called at most once for an index, only for
\* the indices 0..totalChunks-1, with at most CONCURRENT_CHUNKS calls out; and
\* finalizeUpload is called at most once, only after an uploadChunk call for
\* every index has resolved and with none still out.
HookOrder ==
    /\ hook.initCalls <= 1
    /\ hook.pc /= "idle" =>
          /\ hook.initCalls = 1
          /\ hook.totalChunks * CHUNK_SIZE >= hook.size
          /\ (hook.totalChunks - 1) * CHUNK_SIZE < hook.size \/ hook.size = 0
    /\ hook.pc \in {"idle", "awaitInit"} =>
          /\ \A i \in 0..MaxIndex : hook.sent[i] = 0
          /\ hook.finalizeCalls = 0
    /\ \A i \in 0..MaxIndex :
          /\ hook.sent[i] <= 1
          /\ hook.sent[i] = 1 => i \in HookIndices
    /\ Cardinality(hook.inFlight) <= CONCURRENT_CHUNKS
    /\ hook.finalizeCalls <= 1
    /\ hook.finalizeCalls = 1 =>
          /\ hook.ok = HookIndices
          /\ hook.inFlight = {}
          /\ \A i \in HookIndices : hook.sent[i] = 1

\* C26 as stated: HookOrder, and in every run, once it has ended without a
\* call rejected, uploadChunk has been called exactly once for each index
\* 0..totalChunks-1.
C26_HookEveryRun ==
    /\ HookOrder
    /\ hook.pc \in {"complete", "returned"} =>
          \A i \in HookIndices : hook.sent[i] = 1

\* C26 amended: HookOrder, and in every run that reaches finalizeUpload
\* uploadChunk has been called exactly once for each index 0..totalChunks-1; a
\* run that cancel() or a rejected call ends earlier has called it at most once
\* for each index.
C26_HookProtocol ==
    /\ HookOrder
    /\ hook.pc \in {"awaitFinalize", "complete"} =>
          /\ hook.finalizeCalls = 1
          /\ \A i \in HookIndices : hook.sent[i] = 1
    /\ hook.pc \in {"returned", "error"} =>
          \A i \in HookIndices : hook.sent[i] <= 1

\* a run of 4 chunks, two batches, is complete
C26_Witness ==
    /\ hook.pc = "complete"
    /\ hook.totalChunks = 4
    /\ hook.size = 7
    /\ hook.chunksUploaded = 4
    /\ hook.finalizeCalls = 1
    /\ \A i \in 0..3 : hook.sent[i] = 1

\* the name index and the user table agree: every indexed name leads to an
\* existing user of that name, every user is indexed under its name and holds
\* the id it is stored under, and no two users share a name
NameIndexAgrees(us, byName) ==
    /\ \A n \in DOMAIN byName :
          /\ byName[n] \in DOMAIN us
          /\ us[byName[n]].username = n
    /\ \A i \in DOMAIN us :
          /\ us[i].id = i
          /\ us[i].username \in DOMAIN byName
          /\ byName[us[i].username] = i
    /\ \A i, j \in DOMAIN us : us[i].username = us[j].username => i = j

\* C27: usernames are unique. Before and after every step the name index and
\* the user table agree; a registerUser or createUser call naming a username
\* in use fails, with 'Username already taken' unless createUser has already
\* rejected the session or the role, and leaves the user table, the name index
\* and the user id counter as they were; and a user is only ever added under a
\* name that was free and the next id.
C27_UsernamesUnique ==
    [][ /\ NameIndexAgrees(users, usersByName)
        /\ NameIndexAgrees(users', usersByName')
        /\ (/\ ret'.op \in {"registerUser", "createUser"}
            /\ ret'.args.username \in DOMAIN usersByName)
           => /\ ret'.err /= ""
              /\ ret'.op = "registerUser" => ret'.err = "Username already taken"
              /\ ret'.err \in UnauthorizedMsgs \cup
                    {"Unauthorized: Only Master or Staff roles can perform this action",
                     "Unauthorized: Staff can only create Client accounts",
                     "Username already taken"}
              /\ UNCHANGED <<users, usersByName, userIdCounter>>
        /\ \A i \in DOMAIN users' \ DOMAIN users :
              /\ users'[i].username \notin DOMAIN usersByName
              /\ i = userIdCounter + 1
              /\ userIdCounter' = i
      ]_vars

\* a createUser call by the Master naming a registered Client's username has
\* failed with 'Username already taken', and the next id is still unused
C27_Witness ==
    /\ ret.op = "createUser"
    /\ ret.err = "Username already taken"
    /\ ret.args.username \in DOMAIN usersByName
    /\ users[usersByName[ret.args.username]].role = "Client"
    /\ userIdCounter = 2
    /\ DOMAIN users = {1, 2}

\* the failures of finalizeUpload
FinalizeErrs ==
    UnauthorizedMsgs \cup {"File not found"}
        \cup {"Missing chunk: " \o toText(i) : i \in 0..MaxLifeIndex}

\* C28: quota is checked only at initUpload. An initUpload step, returning or
\* failing, leaves every user record as it was; a finalizeUpload step fails
\* only for its session, the file, its owner or a missing chunk, never for the
\* quota; it returns whenever the session is valid, the file exists, the caller
\* may write it and every chunk is there, whatever the owner's usedBytes; and
\* when it returns the owner's usedBytes has grown by the totalSize of that
\* file.
C28_QuotaOnlyAtInit ==
    [][ /\ ret'.op = "initUpload" => users' = users
        /\ ret'.op = "finalizeUpload" =>
              /\ ret'.err \in FinalizeErrs \cup {""}
              /\ ret'.err /= "Storage quota exceeded"
              /\ (/\ requireSessionErr(ret'.args.token) = ""
                  /\ ret'.args.fileId \in DOMAIN files
                  /\ ~notPermitted(files[ret'.args.fileId],
                                   requireSession(ret'.args.token))
                  /\ firstMissing(chunks, ret'.args.fileId, 0,
                                  files[ret'.args.fileId].totalChunks) = -1)
                 => ret'.err = ""
              /\ ret'.err = "" =>
                    LET f == files[ret'.args.fileId] IN
                    /\ files'[f.fileId].status = "Complete"
                    /\ f.owner \in DOMAIN users =>
                          users'[f.owner].usedBytes = users[f.owner].usedBytes + f.totalSize
      ]_vars

\* one user started two uploads of 6 bytes under a quota of 10, each passing
\* the check at initUpload; the second was finalised first, and now the first
\* has been finalised too: both are Complete and usedBytes is 12
C28_Witness ==
    /\ ret.op = "finalizeUpload"
    /\ ret.err = ""
    /\ ret.args.fileId = 1
    /\ ret.f /= Null /\ ret.f[1].status = "Pending"
    /\ DOMAIN files = {1, 2}
    /\ files[1].owner = files[2].owner
    /\ files[1].owner \in DOMAIN users
    /\ files[1].status = "Complete" /\ files[2].status = "Complete"
    /\ files[1].totalSize <= users[files[1].owner].quota
    /\ files[2].totalSize <= users[files[1].owner].quota
    /\ users[files[1].owner].usedBytes = files[1].totalSize + files[2].totalSize
    /\ users[files[1].owner].usedBytes > users[files[1].owner].quota

\* an uploadChunk call for a fixed file: its index and its blob
ChunkCalls == [index : 0..MaxLifeIndex, data : Blobs]

\* the sets of calls with pairwise distinct indices
DistinctCalls ==
    {C \in SUBSET ChunkCalls :
        C /= {} /\ \A a, b \in C : a.index = b.index => a = b}

\* the orders in which the calls of C can be executed
Orders(C) ==
    {p \in [1..Cardinality(C) -> C] :
        \A a, b \in 1..Cardinality(C) : a /= b => p[a] /= p[b]}

\* the chunk store after the calls of p were executed on cs for file g, in order
RECURSIVE Arrive(_, _, _)
Arrive(cs, g, p) ==
    IF p = <<>> THEN cs
    ELSE Arrive(storeChunk(cs, chunkKey(g, Head(p).index), Head(p).data), g, Tail(p))

\* what the calls of p return, in order
Returns(cs, g, totalChunks, p) ==
    [k \in 1..Len(p) |-> countFrom(Arrive(cs, g, SubSeq(p, 1, k)), g, 0, totalChunks)]

\* the chunk store cs and file g of totalChunks chunks, as an initUpload or an
\* uploadChunk left them, take concurrent calls in any order
AnyOrder(cs, g, totalChunks) ==
    /\ \A C \in DistinctCalls :
          LET q == CHOOSE q \in Orders(C) : TRUE
              n == Cardinality(C)
              present == {i \in 0..(totalChunks - 1) : chunkKey(g, i) \in DOMAIN cs}
          IN \A p \in Orders(C) :
                /\ Arrive(cs, g, p) = Arrive(cs, g, q)
                /\ \A c \in C : Arrive(cs, g, p)[chunkKey(g, c.index)] = c.data
                /\ (present = {} /\ \A c \in C : c.index < totalChunks)
                      => Returns(cs, g, totalChunks, p) = [k \in 1..n |-> k]
                /\ (0..(totalChunks - 1)) \subseteq (present \cup {c.index : c \in C})
                      => firstMissing(Arrive(cs, g, p), g, 0, totalChunks) = -1
    /\ \A i \in 0..MaxLifeIndex, d, e \in Blobs :
          Arrive(cs, g, <<[index |-> i, data |-> d], [index |-> i, data |-> e]>>)
             [chunkKey(g, i)] = e

\* from the chunk store cs, two calls for file g with distinct indices end in
\* the same store whichever is executed first, and return one more than the
\* count before them and one more again when both indices are new and below
\* totalChunks
PairOrder(cs, g, totalChunks) ==
    \A a, b \in ChunkCalls :
       a.index /= b.index =>
          /\ Arrive(cs, g, <<a, b>>) = Arrive(cs, g, <<b, a>>)
          /\ ({a.index, b.index} \subseteq
                 {i \in 0..(totalChunks - 1) : chunkKey(g, i) \notin DOMAIN cs})
                => Returns(cs, g, totalChunks, <<a, b>>)
                      = <<countFrom(cs, g, 0, totalChunks) + 1,
                          countFrom(cs, g, 0, totalChunks) + 2>>

\* C29: the order in which chunks arrive does not matter. An uploadChunk that
\* returns is one store under the key of its file and index, replacing what was
\* there, changes nothing else, and returns the count of the indices below
\* totalChunks then present. From the store an initUpload leaves, every order
\* of a set of calls for the new file with pairwise distinct indices ends in
\* the same store, holding each call's blob; the k-th call returns k when the
\* indices are below totalChunks; the scan of finalizeUpload finds no chunk
\* missing once all indices are covered; and of two calls with the same index
\* the blob of the later one is stored.  From the store an uploadChunk leaves,
\* any two further calls with distinct indices can be executed in either
\* order.  A finalizeUpload that returns found every chunk.
C29_ArrivalOrder ==
    [][ /\ (ret'.op = "uploadChunk" /\ ret'.err = "") =>
              LET a == ret'.args
                  call == [index |-> a.chunkIndex, data |-> a.chunkData]
              IN /\ chunks' = Arrive(chunks, a.fileId, <<call>>)
                 /\ chunks'[chunkKey(a.fileId, a.chunkIndex)] = a.chunkData
                 /\ \A k \in DOMAIN chunks \ {chunkKey(a.fileId, a.chunkIndex)} :
                       k \in DOMAIN chunks' /\ chunks'[k] = chunks[k]
                 /\ ret'.val = Returns(chunks, a.fileId,
                                       files[a.fileId].totalChunks, <<call>>)[1]
                 /\ UNCHANGED <<users, usersByName, files, sessions, shareTokens,
                                userIdCounter, fileIdCounter>>
                 /\ PairOrder(chunks', a.fileId, files[a.fileId].totalChunks)
        /\ (ret'.op = "initUpload" /\ ret'.err = "") =>
              AnyOrder(chunks', ret'.val, ret'.args.totalChunks)
        /\ (ret'.op = "finalizeUpload" /\ ret'.err = "") =>
              \A i \in 0..(files[ret'.args.fileId].totalChunks - 1) :
                 chunkKey(ret'.args.fileId, i) \in DOMAIN chunks
      ]_vars

\* the three chunks of a file arrived with index 0 last: after login,
\* initUpload and two other uploadChunk calls, the call for index 0 returned 3
C29_Witness ==
    /\ ret.op = "uploadChunk"
    /\ ret.err = ""
    /\ ret.args.chunkIndex = 0
    /\ ret.val = 3
    /\ DOMAIN files = {1}
    /\ files[1].totalChunks = 3
    /\ calls = MaxLifeCalls - 5
    /\ \A i \in 0..2 : chunkKey(1, i) \in DOMAIN chunks

\* the users with role Master or Staff
Elevated(us) == {i \in DOMAIN us : us[i].role \in {"Master", "Staff"}}

\* the role of the user the token resolves to, "none" when it resolves to none
RoleOf(token) ==
    IF requireSessionErr(token) = "" THEN requireSession(token).role ELSE "none"

\* the methods of user administration that take a session token
AdminOps == {"createUser", "deleteUser", "updateUserRole", "updateUserGbLimit",
             "listUsers", "getUserStorageStats"}

\* C30: user administration respects the role hierarchy. With a Staff session
\* createUser returns only for role Client and deleteUser only for a Client
\* account, and updateUserRole never returns; updateUserRole returns only with
\* a Master session; with a Client session, or a token that resolves to no
\* user, createUser, deleteUser, updateUserRole, updateUserGbLimit, listUsers
\* and getUserStorageStats fail as unauthorized and change nothing;
\* registerUser creates a Client.  Every step that is not a call with a Master
\* session leaves the set of Master and Staff users the same or smaller, and
\* no user's role is raised to Master or Staff in it.
C30_RoleHierarchy ==
    [][ /\ (ret'.op \in AdminOps /\ RoleOf(ret'.args.token) = "Staff") =>
              /\ (ret'.op = "createUser" /\ ret'.err = "") =>
                    /\ ret'.args.role = "Client"
                    /\ users'[ret'.val].role = "Client"
              /\ (ret'.op = "createUser" /\ ret'.args.role /= "Client") =>
                    /\ ret'.err = "Unauthorized: Staff can only create Client accounts"
                    /\ UNCHANGED state
              /\ (ret'.op = "deleteUser" /\ ret'.err = "") =>
                    users[ret'.args.userId].role = "Client"
              /\ (/\ ret'.op = "deleteUser"
                  /\ ret'.args.userId \in DOMAIN users
                  /\ users[ret'.args.userId].role /= "Client") =>
                    /\ ret'.err = "Unauthorized: Staff can only delete Client accounts"
                    /\ UNCHANGED state
              /\ ret'.op = "updateUserRole" =>
                    /\ ret'.err = "Unauthorized: Only Master role can perform this action"
                    /\ UNCHANGED state
        /\ (ret'.op = "updateUserRole" /\ ret'.err = "") =>
              RoleOf(ret'.args.token) = "Master"
        /\ (ret'.op \in AdminOps /\ RoleOf(ret'.args.token) \in {"Client", "none"}) =>
              /\ ret'.err = IF RoleOf(ret'.args.token) = "none"
                            THEN requireSessionErr(ret'.args.token)
                            ELSE IF ret'.op = "updateUserRole"
                            THEN "Unauthorized: Only Master role can perform this action"
                            ELSE "Unauthorized: Only Master or Staff roles can perform this action"
              /\ UNCHANGED state
        /\ (ret'.op = "registerUser" /\ ret'.err = "") =>
              /\ users'[ret'.val].role = "Client"
              /\ ret'.val \notin DOMAIN users
        /\ ~(ret'.op \in AdminOps /\ RoleOf(ret'.args.token) = "Master") =>
              /\ Elevated(users') \subseteq Elevated(users)
              /\ \A i \in DOMAIN users \cap DOMAIN users' :
                    users[i].role = "Client" => users'[i].role = "Client"
      ]_vars

\* beside the Master, a Staff account and a Client account exist, and the
\* Staff session's deleteUser of a Staff account (its own) has just failed
C30_Witness ==
    /\ ret.op = "deleteUser"
    /\ ret.err = "Unauthorized: Staff can only delete Client accounts"
    /\ RoleOf(ret.args.token) = "Staff"
    /\ ret.args.userId = requireSession(ret.args.token).id
    /\ \E i \in DOMAIN users : users[i].role = "Client"
    /\ \E i \in DOMAIN users : users[i].role = "Master"
    /\ Cardinality(DOMAIN users) = 3

\* C31: a listFiles that returns gives, for a session of a Client, exactly the
\* records of the files that user owns, Pending or Complete, as they are
\* stored, and no record of another owner; for a session of a Master or Staff
\* user it gives every file record.  It fails only when the token resolves to
\* no user, and it changes nothing.
C31_ListFiles ==
    [][ ret'.op = "listFiles" =>
          /\ UNCHANGED state
          /\ (ret'.err = "") <=> (requireSessionErr(ret'.args.token) = "")
          /\ ret'.err /= "" => ret'.err = requireSessionErr(ret'.args.token)
          /\ ret'.err = "" =>
                LET user == requireSession(ret'.args.token)
                    own == {g \in DOMAIN files : files[g].owner = user.id}
                IN /\ user.role = "Client" =>
                         /\ DOMAIN ret'.val = own
                         /\ \A g \in DOMAIN ret'.val : ret'.val[g].owner = user.id
                   /\ user.role \in {"Master", "Staff"} => DOMAIN ret'.val = DOMAIN files
                   /\ \A g \in DOMAIN ret'.val : ret'.val[g] = files[g]
      ]_vars

\* a Client who owns a Complete file, while another user owns a file too, has
\* listed the files and got the one record
C31_Witness ==
    /\ ret.op = "listFiles"
    /\ ret.err = ""
    /\ requireSession(ret.args.token).role = "Client"
    /\ Cardinality(DOMAIN files) = 2
    /\ Cardinality(DOMAIN ret.val) = 1
    /\ \A g \in DOMAIN ret.val :
          ret.val[g].status = "Complete" /\ ret.val[g].owner = requireSession(ret.args.token).id

\* C32: after a logout in the client the caches are empty: whenever the tab
\* holds no session, the chunk cache and the sessionStorage metadata cache of
\* the tab are empty; so the file list a logged-in user is shown was fetched
\* under that user's session, and a file blob handed over from the cache was
\* fetched under the session of the user it is handed to.
C32_LogoutClearsCaches ==
    /\ tab.session = Null => (tab.chunkMap = EmptyMap /\ tab.metadata = Null)
    /\ (tab.session /= Null /\ tab.query /= Null) =>
          tab.query[1].under = tab.session[1]
    /\ tab.served /= Null => tab.served[1].under = tab.served[1].to

\* C33: in every reachable state, for each user, usedBytes is the sum of
\* totalSize over the files the user owns whose status is Complete.
C33_UsedIsCompleteBytes ==
    \A u \in DOMAIN users : users[u].usedBytes = CompleteBytes(u)

\* the bytes a download of file g of n chunks gives from the store cs when
\* the blob at index idx is data: chunks 0..n-1 joined in index order
RECURSIVE BytesWith(_, _, _, _, _)
BytesWith(cs, g, n, idx, data) ==
    IF n = 0 THEN <<>>
    ELSE BytesWith(cs, g, n - 1, idx, data)
            \o (IF n - 1 = idx THEN data ELSE cs[chunkKey(g, n - 1)])

\* C34: uploadChunk does not consult the status. On a file that is Complete an
\* uploadChunk by the owner or a Master/Staff user returns, makes its data the
\* blob at its index, and leaves every file record (the status with it) and
\* every user record (usedBytes with it) as they were; what downloadFile
\* assembles from the store it leaves is the old content with the blob at that
\* index replaced, and a downloadFile of a Complete file that returns gives
\* the bytes stored at that time.
C34_CompleteNotFrozen ==
    [][ /\ (/\ ret'.op = "uploadChunk"
            /\ ret'.args.fileId \in DOMAIN files
            /\ files[ret'.args.fileId].status = "Complete"
            /\ OwnerOrElevated(ret'.args.token, files[ret'.args.fileId])) =>
              LET a == ret'.args
                  f == files[a.fileId]
              IN /\ ret'.err = ""
                 /\ chunks'[chunkKey(a.fileId, a.chunkIndex)] = a.chunkData
                 /\ files' = files
                 /\ users' = users
                 /\ flatten(partsFrom(chunks', a.fileId, 0, f.totalChunks))
                       = BytesWith(chunks, a.fileId, f.totalChunks,
                                   a.chunkIndex, a.chunkData)
        /\ (/\ ret'.op = "downloadFile" /\ ret'.err = ""
            /\ files[ret'.args.fileId].status = "Complete") =>
              ret'.val.data = IndexOrderBytes(ret'.args.fileId,
                                              files[ret'.args.fileId].totalChunks)
      ]_vars

\* an uploadChunk for index 0 of a file that was Complete has returned: the
\* file is still Complete, its blob is the one sent, of another length than
\* the file's declared size allows for, and the owner's usedBytes is still
\* the file's totalSize
C34_Witness ==
    /\ ret.op = "uploadChunk"
    /\ ret.err = ""
    /\ ret.f /= Null /\ ret.f[1].status = "Complete"
    /\ ret.f[1].totalChunks = 1
    /\ ret.args.chunkIndex = 0
    /\ ret.args.chunkData = <<2, 3>>
    /\ files[ret.args.fileId] = ret.f[1]
    /\ chunks[chunkKey(ret.args.fileId, 0)] = <<2, 3>>
    /\ users[ret.f[1].owner].usedBytes = ret.f[1].totalSize

\* what C35 and its amendment share: the downloadFile recorded in ret is of an
\* existing Pending file, by a caller let through by share token or session
PendingDownload ==
    /\ ret.op = "downloadFile"
    /\ ret.args.fileId \in DOMAIN files
    /\ files[ret.args.fileId].status = "Pending"
    /\ DownloadAuthorised

\* C35 as stated: downloadFile does not consult the status; for a caller who
\* is let through it returns the assembled data of a Pending file when every
\* index 0..totalChunks-1 has a chunk, and otherwise fails with 'Missing
\* chunk' naming the lowest absent index.
C35_PendingDownloadAlways ==
    PendingDownload =>
        LET g == ret.args.fileId
            absent == AbsentIndices(g)
        IN /\ absent = {} =>
                 /\ ret.err = ""
                 /\ ret.val.data = IndexOrderBytes(g, files[g].totalChunks)
           /\ absent /= {} =>
                 ret.err = "Missing chunk: " \o toText(Lowest(absent))

\* C35 amended: the same for a Pending file declared with totalChunks >= 1;
\* a Pending file declared with totalChunks = 0 is never returned: the call
\* fails with 'No chunks found. Cannot assemble file.'
C35_PendingDownload ==
    PendingDownload =>
        LET g == ret.args.fileId
            absent == AbsentIndices(g)
        IN /\ (absent = {} /\ files[g].totalChunks >= 1) =>
                 /\ ret.err = ""
                 /\ ret.val.data = IndexOrderBytes(g, files[g].totalChunks)
           /\ absent /= {} =>
                 ret.err = "Missing chunk: " \o toText(Lowest(absent))
           /\ files[g].totalChunks = 0 =>
                 ret.err = "No chunks found. Cannot assemble file."

\* a download with the share token of a Pending file of two chunks, and no
\* session, returned their bytes
C35_Witness ==
    /\ PendingDownload
    /\ ret.err = ""
    /\ ret.args.token = Null
    /\ files[ret.args.fileId].totalChunks = 2
    /\ ret.val.data = chunks[chunkKey(ret.args.fileId, 0)]
                         \o chunks[chunkKey(ret.args.fileId, 1)]

\* the chunk indices the model sends
SentIndices == 0..(IF MaxChunks > MaxLifeIndex THEN MaxChunks ELSE MaxLifeIndex)

\* nothing stored refers to a file id that has not been handed out yet
NoIdAhead(fs, cs, sts, counter) ==
    /\ \A g \in DOMAIN fs : g <= counter /\ fs[g].fileId = g
    /\ \A st \in DOMAIN sts : sts[st] <= counter
    /\ \A g \in (counter + 1)..(MaxFiles + 1), i \in SentIndices :
          chunkKey(g, i) \notin DOMAIN cs

\* C36: file ids are never reused. The counter never goes down and moves only
\* in an initUpload that returns, which returns the counter plus one: an id
\* above every id returned before, whatever was deleted since. No file
\* record, share token or chunk refers to an id not yet handed out, so the
\* file an initUpload creates starts with no chunk under its id and no share
\* token bound to it, and the chunks and share tokens that were there stay
\* under the ids they had.
C36_FileIdsFresh ==
    [][ /\ NoIdAhead(files, chunks, shareTokens, fileIdCounter)
        /\ NoIdAhead(files', chunks', shareTokens', fileIdCounter')
        /\ fileIdCounter' >= fileIdCounter
        /\ fileIdCounter' /= fileIdCounter => (ret'.op = "initUpload" /\ ret'.err = "")
        /\ (ret'.op = "initUpload" /\ ret'.err = "") =>
              /\ ret'.val = fileIdCounter + 1
              /\ fileIdCounter' = ret'.val
              /\ ret'.val \notin DOMAIN files
              /\ \A g \in DOMAIN files : g < ret'.val
              /\ \A i \in SentIndices : chunkKey(ret'.val, i) \notin DOMAIN chunks'
              /\ \A st \in DOMAIN shareTokens' : shareTokens'[st] /= ret'.val
              /\ files'[ret'.val].shareToken = Null
              /\ chunks' = chunks
              /\ shareTokens' = shareTokens
      ]_vars

\* file 1 was deleted and left a chunk behind under index 1 (it had one chunk
\* slot); the next initUpload returned 2, and file 2 has no chunk
C36_Witness ==
    /\ ret.op = "initUpload"
    /\ ret.err = ""
    /\ ret.val = 2
    /\ DOMAIN files = {2}
    /\ chunkKey(1, 1) \in DOMAIN chunks
    /\ \A i \in SentIndices : chunkKey(2, i) \notin DOMAIN chunks

\* the methods that resolve a session token they are given
SessionOps == TokenOps \cup {"listUsers", "getUserStorageStats", "listFiles"}

\* C37: once deleteUser has removed a user, every session token issued to that
\* user is refused as unauthorized by every method that takes a session token,
\* in every later state: a token whose session names a user that no longer
\* exists never comes to resolve to a user again, also when an account is
\* created under the same username, and every call made with it fails with an
\* Unauthorized message.
C37_DeletedUserSessionsDead ==
    [][ \A t \in DOMAIN sessions :
           sessions[t].userId \notin DOMAIN users =>
              /\ t \in DOMAIN sessions' => sessions'[t].userId \notin DOMAIN users'
              /\ (ret'.op \in SessionOps /\ ret'.args.token = t) =>
                    ret'.err \in UnauthorizedMsgs
      ]_vars

(***************************************************************************)
(* Files that outlive their owner: an account uploads and shares a file,   *)
(* is deleted by the Master or a Staff account, and the file is finalised, *)
(* downloaded and deleted afterwards.                                      *)
(***************************************************************************)
MaxOrphanCalls == 8

OrphanUploads == {<<"a.txt", "text/plain", 6, 1>>,
                  <<"c.bin", "application/octet-stream", 2, 0>>}

OrphanInit == InitWith(MaxOrphanCalls)

OrphanNext ==
    \/ Ready /\ \E n \in AdminNames, p \in Passwords : login(n, p)
    \/ Ready /\ \E n \in AdminNames, p \in NewPasswords : registerUser(n, p)
    \/ Ready /\ \E t \in TokenInputs, n \in AdminNames, p \in NewPasswords :
          createUser(t, n, p, "Staff")
    \/ Ready /\ \E t \in TokenInputs, u \in UserIds : deleteUser(t, u)
    \/ Ready /\ \E t \in TokenInputs, u \in OrphanUploads :
          initUpload(t, u[1], u[2], u[3], u[4])
    \/ Ready /\ \E t \in TokenInputs, f \in FileIds, d \in Blobs :
          uploadChunk(t, f, 0, d)
    \/ Ready /\ \E t \in TokenInputs, f \in FileIds : finalizeUpload(t, f)
    \/ Ready /\ \E t \in TokenInputs, f \in FileIds : generateShareLink(t, f)
    \/ Ready /\ \E f \in FileIds, st \in ShareInputs : downloadFile(f, Null, st)
    \/ Ready /\ \E t \in TokenInputs, f \in FileIds : deleteFile(t, f)

SpecOrphan == OrphanInit /\ [][OrphanNext]_vars

\* the file the call was about belongs to a user that no longer exists
Orphaned == ret'.f /= Null /\ ret'.f[1].owner \notin DOMAIN users

\* the session of the call is one of a Master or a Staff account
ElevatedCall ==
    /\ requireSessionErr(ret'.args.token) = ""
    /\ requireSession(ret'.args.token).role \in {"Master", "Staff"}

\* every chunk of the file the call was about is stored
AllStored == firstMissing(chunks, ret'.args.fileId, 0, ret'.f[1].totalChunks) = -1

C39_CancelIsFinal ==
    [][ hook.cancelled =>
           /\ hook'.sent = hook.sent
           /\ hook'.finalizeCalls = hook.finalizeCalls
           /\ hook'.status = "complete" => hook.status = "complete"
           /\ hook'.onComplete = hook.onComplete
      ]_vars

\* C40: every run of upload ends in a terminal progress status: when its
\* promise has settled, by success, by a rejected call or after cancel(),
\* progress.status is 'complete', 'error' or 'cancelled' and isUploading is
\* false.
C40_TerminalStatus ==
    hook.pc \in {"complete", "returned", "error"} =>
       /\ hook.status \in {"complete", "error", "cancelled"}
       /\ ~isUploading(hook)

====
